---- MODULE Spec2Model ----
(***************************************************************************)
(* DataSmartPLS4.0: the structural latent engine (core/structural.py), the *)
(* dataset pipeline and the indicator engine (core/generator.py) and the   *)
(* configuration validation (core/config.py).                              *)
(*                                                                         *)
(* Random draws are symbolic: a latent column is the record of which       *)
(* construct's configuration it was drawn for and at which position of the *)
(* shared generator stream; an item's raw score vector is an input.        *)
(***************************************************************************)
EXTENDS Integers, Sequences, FiniteSets, TLC

VARIABLES
    entry,      \* the function the caller invoked
    cfg,        \* the ModelConfig the caller passed
    pc,         \* position in the running function
    repr,       \* representation of model_cfg.constructs seen by simulate_structural_latents
    nodes,      \* structural.py: nodes (a set)
    parentKeys, \* structural.py: key order of the parents dict
    parentsOf,  \* structural.py: parents[target], a list of sources
    order,      \* structural.py: result of _topological_sort
    draws,      \* every draw taken from the generator created at structural.py:169, in order
    latent,     \* structural.py: latent_scores (keys in insertion order, values, writes per key)
    err,        \* the exception that ended the call ("none" while running or returned)
    result,     \* what the caller received
    validated,  \* generator.py:188: outcome of model_cfg.validate()
    callNo,     \* generate_dataset: which of the two identical calls is running
    firstCall,  \* generate_dataset: outcome of the first call
    item,       \* _generate_items_for_construct: its arguments and local state
    endo,       \* structural.py:207-279: one endogenous construct of the second pass
    generators, \* every np.random.default_rng(...) call made so far, with its argument
    biasRun,    \* bias.py: apply_all_biases, its arguments and local state
    diag,       \* diagnostics.py: the function called, its arguments and its result
    session     \* st.session_state and what the page scripts run in the session did

vars == <<entry, cfg, pc, repr, nodes, parentKeys, parentsOf, order, draws,
          latent, err, result, validated, callNo, firstCall, item,
          endo, generators, biasRun, diag, session>>

(***************************************************************************)
(* Bounds and input universes                                              *)
(***************************************************************************)
Names == {"A", "B", "C"}

MaxPaths == 3

\* All sequences over S of length lo..hi
SeqsUpTo(S, lo, hi) == UNION {[1..n -> S] : n \in lo..hi}

Range(s) == {s[i] : i \in 1..Len(s)}

\* PathConfig.__post_init__ rejects empty names and self-loops, so every
\* PathConfig that exists has source # target.
PathConfig == {p \in [source : Names, target : Names] : p.source # p.target}

NoConstructs == <<>>
NoR2 == <<>>
DefaultBias == [careless_rate |-> 0, straightlining_rate |-> 0, random_response_rate |-> 0,
                acquiescence_level |-> 0, midpoint_bias_level |-> 0,
                extreme_bias_level |-> 0, missing_rate |-> 0]
DefaultSample == [n_respondents |-> 2, likert_min |-> 1, likert_max |-> 3, random_seed |-> 123]

ConstructNames(constructs) == [i \in 1..Len(constructs) |-> constructs[i].name]

(***************************************************************************)
(* core/structural.py                                                      *)
(***************************************************************************)
NoVal == [kind |-> "none", dist |-> "", at |-> 0, parents |-> <<>>]
EmptyLatent == [keys |-> <<>>, val |-> [n \in Names |-> NoVal], writes |-> [n \in Names |-> 0]]

\* latent_scores[name] = v : a dict keeps a key's first insertion position
PutLatent(ls, name, v) ==
    [keys   |-> IF name \in Range(ls.keys) THEN ls.keys ELSE Append(ls.keys, name),
     val    |-> [ls.val EXCEPT ![name] = v],
     writes |-> [ls.writes EXCEPT ![name] = @ + 1]]

\* _generate_exogenous_latent(cons_map[name], sample, rng): one draw of n
\* values from the construct's own distribution
ExoDraw(st, name) ==
    [st EXCEPT !.draws = Append(@, [kind |-> "exo", name |-> name]),
               !.ls = PutLatent(@, name,
                         [kind |-> "exo", dist |-> name,
                          at |-> Len(st.draws) + 1, parents |-> <<>>])]

\* _build_graph: nodes
GraphNodes(paths) == {paths[i].source : i \in 1..Len(paths)}
                     \cup {paths[i].target : i \in 1..Len(paths)}

RECURSIVE GraphKeys(_, _)
\* _build_graph: key order of parents (first occurrence of each target)
GraphKeys(paths, i) ==
    IF i = 0 THEN <<>>
    ELSE LET before == GraphKeys(paths, i - 1)
         IN  IF paths[i].target \in Range(before) THEN before
             ELSE Append(before, paths[i].target)

RECURSIVE SourcesOf(_, _, _)
\* _build_graph: parents[tgt], the sources of the paths into tgt, in path order
SourcesOf(paths, tgt, i) ==
    IF i = 0 THEN <<>>
    ELSE LET before == SourcesOf(paths, tgt, i - 1)
         IN  IF paths[i].target = tgt THEN Append(before, paths[i].source) ELSE before

GraphParents(paths) == [n \in Names |-> SourcesOf(paths, n, Len(paths))]

\* _topological_sort, lines 121-126: in-degree = number of listed parents
InDegree(nds, keys, par) == [n \in Names |-> IF n \in Range(keys) THEN Len(par[n]) ELSE 0]

RECURSIVE Relax(_, _, _, _, _)
\* _topological_sort, lines 137-141: one decrement per target that lists node
Relax(i, node, keys, par, qd) ==
    IF i > Len(keys) THEN qd
    ELSE LET tgt == keys[i]
         IN  IF node \in Range(par[tgt])
             THEN LET d == qd.deg[tgt] - 1
                  IN  Relax(i + 1, node, keys, par,
                            [queue |-> IF d = 0 THEN Append(qd.queue, tgt) ELSE qd.queue,
                             deg   |-> [qd.deg EXCEPT ![tgt] = d]])
             ELSE Relax(i + 1, node, keys, par, qd)

RECURSIVE KahnLoop(_, _, _, _, _)
\* _topological_sort, lines 132-141
KahnLoop(queue, ord, deg, keys, par) ==
    IF queue = <<>> THEN ord
    ELSE LET node == Head(queue)
             qd   == Relax(1, node, keys, par, [queue |-> Tail(queue), deg |-> deg])
         IN  KahnLoop(qd.queue, Append(ord, node), qd.deg, keys, par)

\* mutant of TopologicalSort: the final test compares with > instead of !=
TopologicalSortWrongTest(iter, keys, par) ==
    LET deg   == InDegree(Range(iter), keys, par)
        queue == SelectSeq(iter, LAMBDA n : deg[n] = 0)
        ord   == KahnLoop(queue, <<>>, deg, keys, par)
    IN  IF Len(ord) > Len(iter)
        THEN [err |-> "ValueError:cycle", order |-> <<>>]
        ELSE [err |-> "none", order |-> ord]

\* _topological_sort: iter is the iteration order of the nodes set
TopologicalSort(iter, keys, par) ==
    LET deg   == InDegree(Range(iter), keys, par)
        queue == SelectSeq(iter, LAMBDA n : deg[n] = 0)
        ord   == KahnLoop(queue, <<>>, deg, keys, par)
    IN  IF Len(ord) # Len(iter)
        THEN [err |-> "ValueError:cycle", order |-> <<>>]
        ELSE [err |-> "none", order |-> ord]

\* the orders in which a set can be iterated
Iterations(S) == {s \in [1..Cardinality(S) -> S] : Range(s) = S}

HasParents(name, keys, par) == name \in Range(keys) /\ Len(par[name]) # 0

RECURSIVE FirstPassAll(_, _, _, _, _)
\* mutant of FirstPass: the first loop draws every construct of the order
FirstPassAll(i, ord, keys, par, st) ==
    IF i > Len(ord) THEN st
    ELSE FirstPassAll(i + 1, ord, keys, par, ExoDraw(st, ord[i]))

RECURSIVE FirstPass(_, _, _, _, _)
\* simulate_structural_latents, lines 200-203
FirstPass(i, ord, keys, par, st) ==
    IF i > Len(ord) THEN st
    ELSE FirstPass(i + 1, ord, keys, par,
                   IF ~HasParents(ord[i], keys, par) THEN ExoDraw(st, ord[i]) ELSE st)

\* simulate_structural_latents, lines 219-223
Betas(paths, name, par) ==
    LET into == SelectSeq(paths, LAMBDA p : p.target = name /\ p.source \in Range(par[name]))
    IN  [i \in 1..Len(into) |-> into[i].source]

\* simulate_structural_latents, lines 206-279, one iteration of the second loop
SecondPassStep(name, paths, keys, par, st) ==
    IF name \in Range(st.ls.keys) /\ ~HasParents(name, keys, par) THEN st
    ELSE IF ~HasParents(name, keys, par) THEN ExoDraw(st, name)
    ELSE LET betas == Betas(paths, name, par)
         IN  IF betas = <<>> THEN ExoDraw(st, name)
             ELSE IF \E j \in 1..Len(betas) : betas[j] \notin Range(st.ls.keys)
             THEN [st EXCEPT !.err = "ValueError:parent"]
             ELSE [st EXCEPT !.draws = Append(@, [kind |-> "eps", name |-> name]),
                             !.ls = PutLatent(@, name,
                                       [kind |-> "endo", dist |-> name,
                                        at |-> Len(st.draws) + 1, parents |-> betas])]

RECURSIVE SecondPass(_, _, _, _, _, _)
\* simulate_structural_latents, lines 206-279
SecondPass(i, ord, paths, keys, par, st) ==
    IF i > Len(ord) \/ st.err # "none" THEN st
    ELSE SecondPass(i + 1, ord, paths, keys, par,
                    SecondPassStep(ord[i], paths, keys, par, st))

RECURSIVE FallbackPass(_, _, _)
\* simulate_structural_latents, lines 282-285
FallbackPass(i, names, st) ==
    IF i > Len(names) THEN st
    ELSE FallbackPass(i + 1, names,
                      IF names[i] \notin Range(st.ls.keys) THEN ExoDraw(st, names[i]) ELSE st)

RECURSIVE IndependentPass(_, _, _)
\* simulate_structural_latents, lines 176-178
IndependentPass(i, names, st) ==
    IF i > Len(names) THEN st
    ELSE IndependentPass(i + 1, names, ExoDraw(st, names[i]))

\* mutant of OrderedColumns: the frame keeps the order of generation
OrderedColumnsAsGenerated(constructs, ls) == ls.keys

\* simulate_structural_latents, lines 288-292: df_latent[ordered_cols]
OrderedColumns(constructs, ls) == ConstructNames(constructs)

NoResult == [kind |-> "none"]
LatentFrame(cols, ls) == [kind |-> "latent", columns |-> cols, val |-> ls.val]

(***************************************************************************)
(* core/config.py: validation                                              *)
(***************************************************************************)
RECURSIVE FirstDuplicate(_, _)
\* index of the first element of s that repeats an earlier one, 0 if none
FirstDuplicate(s, i) ==
    IF i > Len(s) THEN 0
    ELSE IF \E j \in 1..(i - 1) : s[j] = s[i] THEN i
    ELSE FirstDuplicate(s, i + 1)

\* StructuralConfig._check_cycles, line 93-95: graph[source], targets in path order
ChildrenOf(paths, src) ==
    LET out == SelectSeq(paths, LAMBDA p : p.source = src)
    IN  [i \in 1..Len(out) |-> out[i].target]

RECURSIVE Dfs(_, _, _)
RECURSIVE DfsEach(_, _, _, _)
\* mutant of Dfs: the node is not taken off the stack when its children are done
DfsNoPop(paths, node, d) ==
    IF d.cyc THEN d
    ELSE IF node \in d.stack THEN [d EXCEPT !.cyc = TRUE]
    ELSE IF node \in d.visited THEN d
    ELSE DfsEach(paths, ChildrenOf(paths, node), 1,
                 [d EXCEPT !.visited = @ \cup {node}, !.stack = @ \cup {node}])

\* StructuralConfig._check_cycles.dfs, lines 100-109; d = [visited, stack, cyc]
Dfs(paths, node, d) ==
    IF d.cyc THEN d
    ELSE IF node \in d.stack THEN [d EXCEPT !.cyc = TRUE]
    ELSE IF node \in d.visited THEN d
    ELSE LET entered == [d EXCEPT !.visited = @ \cup {node}, !.stack = @ \cup {node}]
             after   == DfsEach(paths, ChildrenOf(paths, node), 1, entered)
         IN  IF after.cyc THEN after ELSE [after EXCEPT !.stack = @ \ {node}]

DfsEach(paths, kids, i, d) ==
    IF i > Len(kids) \/ d.cyc THEN d
    ELSE DfsEach(paths, kids, i + 1, Dfs(paths, kids[i], d))

RECURSIVE SourceKeys(_, _)
\* StructuralConfig._check_cycles: key order of graph (first occurrence of each source)
SourceKeys(paths, i) ==
    IF i = 0 THEN <<>>
    ELSE LET before == SourceKeys(paths, i - 1)
         IN  IF paths[i].source \in Range(before) THEN before
             ELSE Append(before, paths[i].source)

\* StructuralConfig._check_cycles, lines 91-112: TRUE when it raises
CheckCyclesRaises(paths) ==
    DfsEach(paths, SourceKeys(paths, Len(paths)), 1,
            [visited |-> {}, stack |-> {}, cyc |-> FALSE]).cyc

RECURSIVE ValidatePaths(_, _, _)
\* StructuralConfig.validate, lines 65-78
ValidatePaths(paths, names, i) ==
    IF i > Len(paths) THEN "ok"
    ELSE IF \E j \in 1..(i - 1) : paths[j] = paths[i] THEN "ValueError:duplicate path"
    ELSE IF paths[i].source \notin names THEN "ValueError:source not defined"
    ELSE IF paths[i].target \notin names THEN "ValueError:target not defined"
    ELSE ValidatePaths(paths, names, i + 1)

RECURSIVE ValidateR2(_, _, _)
\* StructuralConfig.validate, lines 81-85; values in hundredths
ValidateR2(r2, names, i) ==
    IF i > Len(r2) THEN "ok"
    ELSE IF r2[i].cons \notin names THEN "ValueError:r2 unknown construct"
    ELSE IF ~(0 <= r2[i].val /\ r2[i].val < 100) THEN "ValueError:r2 range"
    ELSE ValidateR2(r2, names, i + 1)

\* StructuralConfig.validate, lines 63-88
StructuralValidate(paths, r2, names) ==
    LET a == ValidatePaths(paths, names, 1)
        b == ValidateR2(r2, names, 1)
    IN  IF a # "ok" THEN a
        ELSE IF b # "ok" THEN b
        ELSE IF CheckCyclesRaises(paths) THEN "ValueError:circular"
        ELSE "ok"

\* BiasConfig.validate, lines 206-220; values in hundredths
BiasValidate(b) ==
    IF ~(0 <= b.careless_rate /\ b.careless_rate <= 100) THEN "ValueError:careless"
    ELSE IF ~(0 <= b.straightlining_rate /\ b.straightlining_rate <= 100)
         THEN "ValueError:straightlining"
    ELSE IF ~(0 <= b.random_response_rate /\ b.random_response_rate <= 100)
         THEN "ValueError:random"
    ELSE IF ~(-100 <= b.acquiescence_level /\ b.acquiescence_level <= 100)
         THEN "ValueError:acquiescence"
    ELSE IF ~(0 <= b.midpoint_bias_level /\ b.midpoint_bias_level <= 100)
         THEN "ValueError:midpoint"
    ELSE IF ~(0 <= b.extreme_bias_level /\ b.extreme_bias_level <= 100)
         THEN "ValueError:extreme"
    ELSE IF ~(0 <= b.missing_rate /\ b.missing_rate <= 50) THEN "ValueError:missing"
    ELSE "ok"

\* ModelConfig.validate, lines 243-257
ModelValidate(c) ==
    LET names == ConstructNames(c.constructs)
        s     == StructuralValidate(c.paths, c.r2_targets, Range(names))
    IN  IF FirstDuplicate(names, 1) # 0 THEN "ValueError:duplicate construct"
        ELSE IF s # "ok" THEN s
        ELSE BiasValidate(c.bias)

(***************************************************************************)
(* simulate_structural_latents as a state machine                          *)
(***************************************************************************)
NoItem == [stage |-> "unused"]
NoEndo == [stage |-> "unused"]
NoBiasRun == [stage |-> "unused"]
NoDiag == [stage |-> "unused"]
NoSession == [stage |-> "unused"]
NoCall == [kind |-> "none"]

\* a return or a raise of simulate_structural_latents reaches generate_dataset
\* line 209 when that is the caller
AfterSim == IF entry = "generate_dataset" THEN "gen_after_sim" ELSE "done"

\* lines 165-172: cons_map = {c.name: c for c in constructs}; iterating a dict
\* yields its keys, which are str and have no attribute name
SimStart ==
    /\ pc = "sim_start"
    /\ IF repr = "dict"
       THEN /\ err' = "AttributeError"
            /\ pc' = AfterSim
       ELSE /\ err' = err
            /\ pc' = "sim_branch"
    /\ UNCHANGED <<entry, cfg, repr, nodes, parentKeys, parentsOf, order, draws,
                   latent, result, validated, callNo, firstCall, item,
                   endo, generators, biasRun, diag, session>>

\* lines 174-179: no structural paths
SimIndependent ==
    /\ pc = "sim_branch"
    /\ cfg.paths = <<>>
    /\ LET st == IndependentPass(1, ConstructNames(cfg.constructs),
                                 [draws |-> draws, ls |-> latent, err |-> "none"])
       IN  /\ draws' = st.draws
           /\ latent' = st.ls
           /\ result' = LatentFrame(st.ls.keys, st.ls)
    /\ pc' = AfterSim
    /\ UNCHANGED <<entry, cfg, repr, nodes, parentKeys, parentsOf, order, err,
                   validated, callNo, firstCall, item,
                   endo, generators, biasRun, diag, session>>

\* mutant of Dangling: only the sources of the paths are looked up
DanglingSourcesOnly(paths, declared) ==
    \E i \in 1..Len(paths) : paths[i].source \notin declared

\* mutant of Dangling: only the targets of the paths are looked up
DanglingTargetsOnly(paths, declared) ==
    \E i \in 1..Len(paths) : paths[i].target \notin declared

\* lines 185-187: some node of the graph is not a key of cons_map
Dangling(paths, declared) == \E n \in GraphNodes(paths) : n \notin declared

\* lines 181-192: build the graph, reject dangling references, add the
\* unreferenced constructs
SimBuildGraph ==
    /\ pc = "sim_branch"
    /\ cfg.paths # <<>>
    /\ parentKeys' = GraphKeys(cfg.paths, Len(cfg.paths))
    /\ parentsOf' = GraphParents(cfg.paths)
    /\ LET declared == Range(ConstructNames(cfg.constructs))
       IN  IF Dangling(cfg.paths, declared)
           THEN /\ nodes' = GraphNodes(cfg.paths)
                /\ err' = "ValueError:not defined"
                /\ pc' = AfterSim
           ELSE /\ nodes' = GraphNodes(cfg.paths) \cup declared
                /\ err' = err
                /\ pc' = "sim_sort"
    /\ UNCHANGED <<entry, cfg, repr, order, draws, latent, result, validated,
                   callNo, firstCall, item,
                   endo, generators, biasRun, diag, session>>

\* line 195: the nodes set is iterated in an order the caller does not control
SimTopoSort ==
    /\ pc = "sim_sort"
    /\ \E iter \in Iterations(nodes) :
          LET t == TopologicalSort(iter, parentKeys, parentsOf)
          IN  /\ order' = t.order
              /\ err' = t.err
              /\ pc' = IF t.err = "none" THEN "sim_first" ELSE AfterSim
    /\ UNCHANGED <<entry, cfg, repr, nodes, parentKeys, parentsOf, draws, latent,
                   result, validated, callNo, firstCall, item,
                   endo, generators, biasRun, diag, session>>

\* lines 199-203
SimFirstPass ==
    /\ pc = "sim_first"
    /\ LET st == FirstPass(1, order, parentKeys, parentsOf,
                           [draws |-> draws, ls |-> latent, err |-> "none"])
       IN  /\ draws' = st.draws
           /\ latent' = st.ls
    /\ pc' = "sim_second"
    /\ UNCHANGED <<entry, cfg, repr, nodes, parentKeys, parentsOf, order, err,
                   result, validated, callNo, firstCall, item,
                   endo, generators, biasRun, diag, session>>

\* lines 205-279
SimSecondPass ==
    /\ pc = "sim_second"
    /\ LET st == SecondPass(1, order, cfg.paths, parentKeys, parentsOf,
                            [draws |-> draws, ls |-> latent, err |-> "none"])
       IN  /\ draws' = st.draws
           /\ latent' = st.ls
           /\ err' = st.err
           /\ pc' = IF st.err = "none" THEN "sim_fallback" ELSE AfterSim
    /\ UNCHANGED <<entry, cfg, repr, nodes, parentKeys, parentsOf, order,
                   result, validated, callNo, firstCall, item,
                   endo, generators, biasRun, diag, session>>

\* lines 281-294
SimReturn ==
    /\ pc = "sim_fallback"
    /\ LET st == FallbackPass(1, ConstructNames(cfg.constructs),
                              [draws |-> draws, ls |-> latent, err |-> "none"])
       IN  /\ draws' = st.draws
           /\ latent' = st.ls
           /\ result' = LatentFrame(OrderedColumns(cfg.constructs, st.ls), st.ls)
    /\ pc' = AfterSim
    /\ UNCHANGED <<entry, cfg, repr, nodes, parentKeys, parentsOf, order, err,
                   validated, callNo, firstCall, item,
                   endo, generators, biasRun, diag, session>>

(***************************************************************************)
(* core/generator.py: generate_dataset                                     *)
(***************************************************************************)
DemographicColumns == << <<"gender", 0>>, <<"age_group", 0>>,
                         <<"income_band", 0>>, <<"study_level", 0>> >>

RECURSIVE ItemColumns(_, _)
\* lines 222-240: the frames of the constructs with n_items > 0, side by side;
\* column f"{construct.name}_{idx:02d}" is the pair <<name, idx>>
ItemColumns(constructs, i) ==
    IF i = 0 THEN <<>>
    ELSE LET c == constructs[i]
         IN  ItemColumns(constructs, i - 1) \o
             (IF c.n_items <= 0 THEN <<>> ELSE [k \in 1..c.n_items |-> <<c.name, k>>])

\* lines 211-255, reached only when simulate_structural_latents returned frame
DatasetFrom(c, frame) ==
    LET expected == Range(ConstructNames(c.constructs))
        items    == ItemColumns(c.constructs, Len(c.constructs))
        nframes  == Cardinality({i \in 1..Len(c.constructs) : c.constructs[i].n_items > 0})
        demo     == IF c.add_demographics THEN DemographicColumns ELSE <<>>
    IN  IF expected \ Range(frame.columns) # {}
        THEN [err |-> "ValueError:missing constructs", result |-> NoResult]
        ELSE IF nframes = 0
        THEN [err |-> "ValueError:nothing to generate", result |-> NoResult]
        ELSE [err |-> "none",
              result |-> [kind |-> "dataset",
                          full_columns |-> demo \o items,
                          items_columns |-> items,
                          rows |-> c.sample.n_respondents]]

\* lines 186-191: the outcome of validate() is discarded
GenValidate ==
    /\ pc = "gen_validate"
    /\ validated' = ModelValidate(cfg)
    /\ pc' = "gen_prepare"
    /\ UNCHANGED <<entry, cfg, repr, nodes, parentKeys, parentsOf, order, draws,
                   latent, err, result, callNo, firstCall, item,
                   endo, generators, biasRun, diag, session>>

\* lines 193-209: the empty check, then the constructs rekeyed to a dict and
\* handed to simulate_structural_latents
GenPrepare ==
    /\ pc = "gen_prepare"
    /\ IF cfg.constructs = <<>>
       THEN /\ err' = "ValueError:constructs is empty"
            /\ pc' = "done"
            /\ repr' = repr
       ELSE /\ err' = err
            /\ pc' = "sim_start"
            /\ repr' = "dict"
    /\ UNCHANGED <<entry, cfg, nodes, parentKeys, parentsOf, order, draws,
                   latent, result, validated, callNo, firstCall, item,
                   endo, generators, biasRun, diag, session>>

\* lines 209-255: an exception of simulate_structural_latents propagates,
\* a returned frame goes on to the item and demographic stages
GenAfterSim ==
    /\ pc = "gen_after_sim"
    /\ IF err # "none"
       THEN /\ err' = err
            /\ result' = NoResult
       ELSE LET d == DatasetFrom(cfg, result)
            IN  /\ err' = d.err
                /\ result' = d.result
    /\ pc' = "done"
    /\ UNCHANGED <<entry, cfg, repr, nodes, parentKeys, parentsOf, order, draws,
                   latent, validated, callNo, firstCall, item,
                   endo, generators, biasRun, diag, session>>

\* the caller calls generate_dataset again with the same configuration
GenSecondCall ==
    /\ pc = "done"
    /\ entry = "generate_dataset"
    /\ callNo = 1
    /\ firstCall' = [kind |-> "call", err |-> err, result |-> result]
    /\ callNo' = 2
    /\ pc' = "gen_validate"
    /\ repr' = "list"
    /\ err' = "none"
    /\ result' = NoResult
    /\ validated' = "not run"
    /\ draws' = <<>>
    /\ latent' = EmptyLatent
    /\ order' = <<>>
    /\ nodes' = {}
    /\ parentKeys' = <<>>
    /\ parentsOf' = [n \in Names |-> <<>>]
    /\ UNCHANGED <<entry, cfg, item, endo, generators, biasRun, diag, session>>

(***************************************************************************)
(* Inputs                                                                  *)
(***************************************************************************)
MaxGenPaths == 2
MaxGenConstructs == 2

\* n_items of the construct named n in the configurations explored
NItemsOf(n) == IF n = "B" THEN 2 ELSE 1

ConstructLists(lo, hi) ==
    {[i \in 1..Len(s) |-> [name |-> s[i], n_items |-> NItemsOf(s[i])]] :
        s \in SeqsUpTo(Names, lo, hi)}

BadBias == [DefaultBias EXCEPT !.careless_rate = 150]

\* (r2_targets, bias) pairs: all valid; R2 out of [0, 1); a valid R2; a bad bias rate
Settings ==
    { [r2 |-> NoR2, bias |-> DefaultBias],
      [r2 |-> << [cons |-> "B", val |-> 150] >>, bias |-> DefaultBias],
      [r2 |-> << [cons |-> "B", val |-> 50] >>, bias |-> DefaultBias],
      [r2 |-> NoR2, bias |-> BadBias] }

InitCommon ==
    /\ repr = "list"
    /\ nodes = {}
    /\ parentKeys = <<>>
    /\ parentsOf = [n \in Names |-> <<>>]
    /\ order = <<>>
    /\ draws = <<>>
    /\ latent = EmptyLatent
    /\ err = "none"
    /\ result = NoResult
    /\ validated = "not run"
    /\ callNo = 1
    /\ firstCall = NoCall
    /\ item = NoItem
    /\ endo = NoEndo
    /\ generators = <<>>
    /\ biasRun = NoBiasRun
    /\ diag = NoDiag
    /\ session = NoSession

\* a caller of simulate_structural_latents (tests/test_structural.py)
InitSimulate ==
    /\ entry = "simulate_structural_latents"
    /\ pc = "sim_start"
    /\ \E cs \in ConstructLists(0, Cardinality(Names)), ps \in SeqsUpTo(PathConfig, 0, MaxPaths) :
          cfg = [constructs |-> cs, paths |-> ps, r2_targets |-> NoR2,
                 bias |-> DefaultBias, add_demographics |-> FALSE,
                 sample |-> DefaultSample]
    /\ InitCommon

\* a caller of generate_dataset (tests/test_generator.py, app/Home.py)
InitGenerate ==
    /\ entry = "generate_dataset"
    /\ pc = "gen_validate"
    /\ \E cs \in ConstructLists(0, MaxGenConstructs),
          ps \in SeqsUpTo(PathConfig, 0, MaxGenPaths),
          st \in Settings, demo \in BOOLEAN :
          cfg = [constructs |-> cs, paths |-> ps, r2_targets |-> st.r2,
                 bias |-> st.bias, add_demographics |-> demo,
                 sample |-> DefaultSample]
    /\ InitCommon

Init == InitSimulate \/ InitGenerate

Next ==
    \/ SimStart
    \/ SimIndependent
    \/ SimBuildGraph
    \/ SimTopoSort
    \/ SimFirstPass
    \/ SimSecondPass
    \/ SimReturn
    \/ GenValidate
    \/ GenPrepare
    \/ GenAfterSim
    \/ GenSecondCall

Spec == Init /\ [][Next]_vars

(***************************************************************************)
(* Properties of the structural engine and of generate_dataset             *)
(***************************************************************************)
RECURSIVE Closure(_)
\* transitive closure of a relation over Names
Closure(R) ==
    LET R2 == R \cup {<<a, c>> \in Names \X Names :
                         \E b \in Names : <<a, b>> \in R /\ <<b, c>> \in R}
    IN  IF R2 = R THEN R ELSE Closure(R2)

Edges(paths) == {<<paths[i].source, paths[i].target>> : i \in 1..Len(paths)}

\* the paths contain a directed cycle
HasCycle(paths) == \E n \in Names : <<n, n>> \in Closure(Edges(paths))

Declared == Range(ConstructNames(cfg.constructs))

\* the paths contain a directed cycle all of whose constructs are declared
CycleOverDeclared ==
    HasCycle(SelectSeq(cfg.paths, LAMBDA p : p.source \in Declared /\ p.target \in Declared))

\* some path names a construct that is not declared
SomePathDangles ==
    \E i \in 1..Len(cfg.paths) :
        cfg.paths[i].source \notin Declared \/ cfg.paths[i].target \notin Declared

UniqueNames == FirstDuplicate(ConstructNames(cfg.constructs), 1) = 0

DirectCall == entry = "simulate_structural_latents"
SimReturned == DirectCall /\ pc = "done" /\ err = "none"
SimRaised == DirectCall /\ pc = "done" /\ err # "none"

\* C1: a path list with a directed cycle over declared constructs makes
\* simulate_structural_latents raise; the caller receives no latent matrix.
C1_CycleRaises ==
    (DirectCall /\ pc = "done" /\ CycleOverDeclared)
        => (err # "none" /\ result = NoResult)

C1_Witness ==
    SimRaised /\ CycleOverDeclared /\ ~SomePathDangles /\ err = "ValueError:cycle"

\* C5: whenever simulate_structural_latents returns and the construct names
\* are unique, the columns are the declared names, each once, in declared
\* order, with or without paths.
C5_DeclaredOrder ==
    (SimReturned /\ UniqueNames)
        => /\ result.kind = "latent"
           /\ result.columns = ConstructNames(cfg.constructs)
           /\ \A n \in Declared : result.val[n].kind # "none"

\* a return where the order of generation differs from the declared order
C5_Witness ==
    /\ SimReturned /\ UniqueNames
    /\ cfg.paths # <<>>
    /\ Len(cfg.constructs) = 3
    /\ latent.keys # ConstructNames(cfg.constructs)

\* C6: a path whose source or target is not declared makes
\* simulate_structural_latents raise, never return a latent matrix, and
\* StructuralConfig.validate raises for the same configuration.
C6_DanglingRaises ==
    (DirectCall /\ pc = "done" /\ SomePathDangles)
        => /\ err = "ValueError:not defined"
           /\ result = NoResult
           /\ StructuralValidate(cfg.paths, cfg.r2_targets, Declared) # "ok"

C6_Witness ==
    /\ SimRaised /\ SomePathDangles
    /\ \E i \in 1..Len(cfg.paths) :
          cfg.paths[i].source \in Declared /\ cfg.paths[i].target \notin Declared

\* C7: with a non-empty path list the dangling-reference check and the
\* topological sort complete before the first draw: once anything has been
\* drawn the paths are known to be free of dangling references and cycles and
\* the order is computed, and a cycle or dangling-reference error leaves no
\* draw, no latent column and no result.
C7_FailFast ==
    DirectCall /\ cfg.paths # <<>> =>
        /\ (draws # <<>> \/ latent # EmptyLatent) =>
              /\ pc \in {"sim_second", "sim_fallback", "done"}
              /\ ~SomePathDangles
              /\ ~HasCycle(cfg.paths)
              /\ Range(order) = nodes
        /\ err \in {"ValueError:cycle", "ValueError:not defined"} =>
              (draws = <<>> /\ latent = EmptyLatent /\ result = NoResult)

C7_Witness ==
    /\ SimRaised /\ err = "ValueError:cycle" /\ draws = <<>>
    /\ Cardinality(nodes) = 3

\* C9: with a non-empty path list, a declared construct is drawn from its own
\* marginal distribution iff no path targets it (a construct in no path
\* included), and every column is written exactly once.
C9_ExogenousIffNoParent ==
    (SimReturned /\ cfg.paths # <<>>) =>
        \A n \in Declared :
            /\ result.val[n].dist = n
            /\ (result.val[n].kind = "exo")
                  <=> ~(\E i \in 1..Len(cfg.paths) : cfg.paths[i].target = n)
            /\ (result.val[n].kind = "endo")
                  <=> (\E i \in 1..Len(cfg.paths) : cfg.paths[i].target = n)
            /\ latent.writes[n] = 1

\* a return with an endogenous construct and a construct that is in no path
C9_Witness ==
    /\ SimReturned /\ cfg.paths # <<>>
    /\ \E n \in Declared : result.val[n].kind = "endo"
    /\ \E n \in Declared : n \notin GraphNodes(cfg.paths) /\ result.val[n].kind = "exo"

\* the configuration is one the claims call valid: ModelConfig.validate
\* accepts it and it declares at least one construct, each with n_items >= 1
ValidConfig ==
    /\ ModelValidate(cfg) = "ok"
    /\ cfg.constructs # <<>>
    /\ \A i \in 1..Len(cfg.constructs) : cfg.constructs[i].n_items >= 1

RECURSIVE SumItems(_, _)
SumItems(constructs, i) ==
    IF i = 0 THEN 0 ELSE SumItems(constructs, i - 1) + constructs[i].n_items

\* C2: for every valid configuration generate_dataset returns normally, the
\* full table has n_respondents rows, the items table has sum(n_items)
\* columns, and the demographic columns precede the item columns when enabled
\* and are absent when disabled.
C2_ReturnsDataset ==
    (entry = "generate_dataset" /\ pc = "done" /\ ValidConfig) =>
        /\ err = "none"
        /\ result.kind = "dataset"
        /\ result.rows = cfg.sample.n_respondents
        /\ Len(result.items_columns) = SumItems(cfg.constructs, Len(cfg.constructs))
        /\ result.full_columns =
              (IF cfg.add_demographics THEN DemographicColumns ELSE <<>>)
                  \o result.items_columns

\* C3: two calls of generate_dataset with the same configuration and seed
\* both return, and return the same pair of tables.
C3_SameOutputTwice ==
    (entry = "generate_dataset" /\ callNo = 2 /\ pc = "done" /\ ValidConfig) =>
        /\ firstCall.err = "none"
        /\ err = "none"
        /\ result.kind = "dataset"
        /\ firstCall.result = result

ConfigurationErrors ==
    {"ValueError:duplicate construct", "ValueError:duplicate path", "ValueError:r2 range",
     "ValueError:careless", "ValueError:straightlining", "ValueError:random",
     "ValueError:acquiescence", "ValueError:midpoint", "ValueError:extreme",
     "ValueError:missing"}

\* C8: generate_dataset with duplicate construct names, a duplicate path, an
\* R2 target outside [0, 1) or an out-of-range bias parameter fails with that
\* configuration error before anything is simulated: it never goes on to the
\* latent stage, and it ends with the error validate raised.
C8_ConfigErrorStops ==
    (entry = "generate_dataset" /\ validated \in ConfigurationErrors) =>
        /\ pc \notin {"sim_start", "gen_after_sim"}
        /\ pc = "done" => err = validated

(***************************************************************************)
(* core/generator.py: _generate_items_for_construct                        *)
(*                                                                         *)
(* raw = lam * latent + eps is a vector of random scores: an input. Edges  *)
(* of the quantile bins are kept multiplied by n_cat, so that the linear   *)
(* interpolation between two order statistics stays in the integers.       *)
(***************************************************************************)
MaxItems == 2
MaxRespondents == 2

RawScores == {0, 1, 2}
LikertRanges == { <<1, 3>>, <<0, 1>>, <<1, 5>> }

\* numpy's cast of NaN to int is not defined: the values a build may produce
NanAsInt == {-1000, 0, 1000}

\* what the libraries decide for one item: pd.qcut raises ValueError (the
\* except branch runs, no cast of NaN), or it returns and NaN codes are cast
QCutOutcomes ==
    {[raised |-> TRUE, nanAs |-> 0]} \cup {[raised |-> FALSE, nanAs |-> v] : v \in NanAsInt}

CountLess(raw, v) == Cardinality({r \in DOMAIN raw : raw[r] < v})
CountLeq(raw, v) == Cardinality({r \in DOMAIN raw : raw[r] <= v})

\* the k-th smallest value of raw
KthSmallest(raw, k) ==
    CHOOSE v \in Range(raw) : CountLess(raw, v) < k /\ k <= CountLeq(raw, v)

\* pd.qcut: the quantile (e - 1)/n_cat of raw by linear interpolation between
\* two order statistics, multiplied by n_cat
QuantileEdge(raw, n_cat, e) ==
    LET h  == (e - 1) * (Len(raw) - 1)
        lo == h \div n_cat
        a  == KthSmallest(raw, lo + 1)
        b  == IF lo + 2 <= Len(raw) THEN KthSmallest(raw, lo + 2) ELSE a
    IN  n_cat * a + (h % n_cat) * (b - a)

\* pd.qcut(duplicates="drop"): the n_cat + 1 edges with the repeated ones
\* dropped, not an error; the edges ascend, so the bins are this set in order
UniqueEdges(raw, n_cat) == {QuantileEdge(raw, n_cat, e) : e \in 1..(n_cat + 1)}

\* pd.qcut: searchsorted(side="left"), include_lowest, and the mask of the
\* scores that fall in no bin, for the score of respondent r
BinCode(raw, n_cat, r) ==
    LET x   == n_cat * raw[r]
        pos == Cardinality({b \in UniqueEdges(raw, n_cat) : b < x})
        ids == IF x = QuantileEdge(raw, n_cat, 1) THEN 1 ELSE pos
    IN  [nan |-> ids = Cardinality(UniqueEdges(raw, n_cat)) \/ ids = 0, code |-> ids - 1]

\* pd.qcut(raw, n_cat, labels=False, duplicates="drop"): the bin code of every
\* score, or NaN for a score that falls in no bin
QCut(raw, n_cat) == [r \in DOMAIN raw |-> BinCode(raw, n_cat, r)]

\* lines 92-95: fractional ranks (ties averaged) scaled into [0, n_cat), floored, clipped
RankCats(raw, n_cat) ==
    LET n == Len(raw)
    IN  [r \in DOMAIN raw |->
            LET less  == CountLess(raw, raw[r])
                equal == CountLeq(raw, raw[r]) - less
                cat   == ((2 * less + equal) * n_cat) \div (2 * n)
            IN  IF cat < 0 THEN 0 ELSE IF cat > n_cat - 1 THEN n_cat - 1 ELSE cat]

\* mutant of ClipLikert: the clip is left out
ClipLikertMissing(v, lik_min, lik_max) == v

\* line 98: .clip(lik_min, lik_max)
ClipLikert(v, lik_min, lik_max) ==
    IF v < lik_min THEN lik_min ELSE IF v > lik_max THEN lik_max ELSE v

\* lines 87-98: one item's column; raised tells whether pd.qcut raised
\* ValueError, nanAs is what the cast of NaN to int gives
LikertColumn(raw, lik_min, lik_max, raised, nanAs) ==
    LET n_cat == lik_max - lik_min + 1
    IN  IF raised
        THEN LET cats == RankCats(raw, n_cat)
             IN  [r \in DOMAIN raw |-> ClipLikert(cats[r] + lik_min, lik_min, lik_max)]
        ELSE [r \in DOMAIN raw |->
                 LET cat == QCut(raw, n_cat)[r]
                 IN  ClipLikert(IF cat.nan THEN nanAs ELSE cat.code + lik_min,
                                lik_min, lik_max)]

\* line 106
NReverse(reverse_items, n_items) ==
    LET m == IF reverse_items < n_items THEN reverse_items ELSE n_items
    IN  IF m > 0 THEN m ELSE 0

\* mutant of ReverseColumns: the leading columns are flipped
ReverseLeadingColumns(columns, n_reverse, lik_min, lik_max) ==
    [j \in DOMAIN columns |->
        IF n_reverse > 0 /\ j <= n_reverse
        THEN [r \in DOMAIN columns[j] |-> lik_min + lik_max - columns[j][r]]
        ELSE columns[j]]

\* lines 107-110: list(items_df.columns)[-n_reverse:] are flipped
ReverseColumns(columns, n_reverse, lik_min, lik_max) ==
    [j \in DOMAIN columns |->
        IF n_reverse > 0 /\ j > Len(columns) - n_reverse
        THEN [r \in DOMAIN columns[j] |-> lik_min + lik_max - columns[j][r]]
        ELSE columns[j]]

\* which way lines 88-95 went for one item: the except branch, the try
\* branch, or the try branch with NaN among the codes
BranchTaken(raw, n_cat, raised) ==
    IF raised THEN "rank"
    ELSE IF \E r \in DOMAIN raw : BinCode(raw, n_cat, r).nan THEN "qcut-nan"
    ELSE "qcut"

\* lines 79-101: one iteration of the item loop
ItemStep ==
    /\ item.stage = "loop"
    /\ Len(item.binned) < item.n_items
    /\ \E raw \in [1..item.n -> RawScores], lib \in QCutOutcomes :
          item' = [item EXCEPT
                      !.binned = Append(@, LikertColumn(raw, item.lik_min, item.lik_max,
                                                        lib.raised, lib.nanAs)),
                      !.how = @ \cup {BranchTaken(raw, item.lik_max - item.lik_min + 1,
                                                  lib.raised)}]
    /\ UNCHANGED <<entry, cfg, pc, repr, nodes, parentKeys, parentsOf, order, draws,
                   latent, err, result, validated, callNo, firstCall,
                   endo, generators, biasRun, diag, session>>

\* lines 103-112: reverse-coding and return
ItemReturn ==
    /\ item.stage = "loop"
    /\ Len(item.binned) = item.n_items
    /\ \E rev \in -1..(item.n_items + 1) :
          item' = [item EXCEPT
                      !.stage = "returned",
                      !.reverse_items = rev,
                      !.columns = ReverseColumns(item.binned, NReverse(rev, item.n_items),
                                                 item.lik_min, item.lik_max)]
    /\ UNCHANGED <<entry, cfg, pc, repr, nodes, parentKeys, parentsOf, order, draws,
                   latent, err, result, validated, callNo, firstCall,
                   endo, generators, biasRun, diag, session>>

NoConfig == [constructs |-> NoConstructs, paths |-> <<>>, r2_targets |-> NoR2,
             bias |-> DefaultBias, add_demographics |-> FALSE, sample |-> DefaultSample]

\* a caller of _generate_items_for_construct; ConstructConfig and SampleConfig
\* guarantee n_items >= 1, n_respondents >= 1 and likert_max > likert_min
InitItems ==
    /\ entry = "_generate_items_for_construct"
    /\ pc = "items"
    /\ cfg = NoConfig
    /\ repr = "list"
    /\ nodes = {}
    /\ parentKeys = <<>>
    /\ parentsOf = [n \in Names |-> <<>>]
    /\ order = <<>>
    /\ draws = <<>>
    /\ latent = EmptyLatent
    /\ err = "none"
    /\ result = NoResult
    /\ validated = "not run"
    /\ callNo = 1
    /\ firstCall = NoCall
    /\ endo = NoEndo
    /\ generators = <<>>
    /\ biasRun = NoBiasRun
    /\ diag = NoDiag
    /\ session = NoSession
    /\ \E k \in 1..MaxItems, n \in 1..MaxRespondents, lk \in LikertRanges :
          item = [stage |-> "loop", n_items |-> k, n |-> n,
                  lik_min |-> lk[1], lik_max |-> lk[2],
                  binned |-> <<>>, how |-> {}, reverse_items |-> 0, columns |-> <<>>]

NextItems == ItemStep \/ ItemReturn

SpecItems == InitItems /\ [][NextItems]_vars

InLikertRange(columns) ==
    \A j \in DOMAIN columns : \A r \in DOMAIN columns[j] :
        item.lik_min <= columns[j][r] /\ columns[j][r] <= item.lik_max

\* C4: every cell of every column of _generate_items_for_construct is an
\* integer of [likert_min, likert_max], on the quantile branch, on the rank
\* branch, and after reverse-coding.
C4_LikertRange ==
    entry = "_generate_items_for_construct" =>
        /\ InLikertRange(item.binned)
        /\ item.stage = "returned" =>
              /\ Len(item.columns) = item.n_items
              /\ InLikertRange(item.columns)

\* a return with a reversed column, a column of each branch and one that had NaN codes
C4_Witness ==
    /\ item.stage = "returned"
    /\ NReverse(item.reverse_items, item.n_items) > 0
    /\ item.how = {"qcut-nan", "rank"}
    /\ item.columns # item.binned

\* C10: exactly the trailing min(reverse_items, n_items) columns are flipped by
\* likert_min + likert_max - value, the leading columns stay as binned, and
\* reverse_items <= 0 flips nothing.
C10_TrailingReversed ==
    item.stage = "returned" =>
        LET k == IF item.reverse_items <= 0 THEN 0
                 ELSE IF item.reverse_items < item.n_items THEN item.reverse_items
                 ELSE item.n_items
        IN  \A j \in 1..item.n_items :
               \A r \in 1..item.n :
                  item.columns[j][r] =
                     IF j > item.n_items - k
                     THEN item.lik_min + item.lik_max - item.binned[j][r]
                     ELSE item.binned[j][r]

\* a return where one trailing column of two was flipped and is not its own mirror
C10_Witness ==
    /\ item.stage = "returned"
    /\ item.n_items = 2 /\ item.reverse_items = 1
    /\ item.columns[1] = item.binned[1]
    /\ item.columns[2] # item.binned[2]
    /\ item.binned[1] = item.binned[2]

(***************************************************************************)
(* structural.py:207-279, the R2 of one endogenous construct               *)
(* betas are in tenths, R2 targets and the clip bounds in hundredths; the  *)
(* r2 used is an exact fraction <<numerator, denominator>>                 *)
(***************************************************************************)
MaxBetas == 2

\* structural.py:259: np.clip(r2_target, 0.0, 0.95), in hundredths
R2Cap == 95

BetaTenths == {-20, -5, 1, 3, 4, 5, 10, 20}

\* r2_targets values StructuralConfig.validate accepts (0 <= val < 1), in hundredths
R2Hundredths == {0, 5, 50, 95, 97, 99}

EndoName == "B"

\* the beta_vector of EndoName: the betas of its incoming paths, in path order
EndoPaths ==
    UNION {[1..n -> BetaTenths] : n \in 1..MaxBetas}

\* r2_targets dicts: empty, one entry for another construct, one entry for EndoName
EndoTargets ==
    {NoR2, << [cons |-> "A", val |-> 50] >>}
        \cup {<< [cons |-> EndoName, val |-> v] >> : v \in R2Hundredths}

\* structural.py:258: r2_dict.get(name, 0.0)
R2Get(r2_dict, name) ==
    IF \E i \in 1..Len(r2_dict) : r2_dict[i].cons = name
    THEN r2_dict[CHOOSE i \in 1..Len(r2_dict) : r2_dict[i].cons = name].val
    ELSE 0

\* structural.py:259: np.clip(r2_target, 0.0, 0.95)
ClipTarget(t) == IF t < 0 THEN 0 ELSE IF t > R2Cap THEN R2Cap ELSE t

RECURSIVE SumSquares(_, _)
\* structural.py:263: np.sum(np.square(beta_vector)), in hundredths
SumSquares(beta_vector, i) ==
    IF i > Len(beta_vector) THEN 0
    ELSE beta_vector[i] * beta_vector[i] + SumSquares(beta_vector, i + 1)

\* structural.py:263-264: clip(sum(beta^2) / (1 + sum(beta^2)), 0.1, 0.7)
Heuristic(beta_vector) ==
    LET ss == SumSquares(beta_vector, 1)
    IN  IF 10 * ss < 100 + ss THEN <<1, 10>>
        ELSE IF 10 * ss > 7 * (100 + ss) THEN <<7, 10>>
        ELSE <<ss, 100 + ss>>

\* structural.py:257-266: the r2 that weights predictor against noise
R2Used(beta_vector, r2_dict, name) ==
    LET r2_target == ClipTarget(R2Get(r2_dict, name))
    IN  IF r2_target <= 0
        THEN [branch |-> "heuristic", r2 |-> Heuristic(beta_vector)]
        ELSE [branch |-> "target", r2 |-> <<r2_target, 100>>]

\* structural.py:207-279 for one endogenous construct whose parents are generated:
\* the r2 is decided, eps is drawn, and y_std = sqrt(r2) lin_comb + sqrt(1 - r2) eps
EndoCombine ==
    /\ endo.stage = "betas"
    /\ LET u == R2Used(endo.beta_vector, endo.r2_targets, endo.name)
       IN  endo' = [endo EXCEPT
                       !.stage = "combined",
                       !.branch = u.branch,
                       !.r2 = u.r2,
                       !.weight2 = [lin_comb |-> u.r2,
                                    eps |-> <<u.r2[2] - u.r2[1], u.r2[2]>>]]
    /\ draws' = Append(draws, [kind |-> "eps", name |-> endo.name])
    /\ UNCHANGED <<entry, cfg, pc, repr, nodes, parentKeys, parentsOf, order, latent,
                   err, result, validated, callNo, firstCall, item, generators,
                   biasRun, diag, session>>

InitOther ==
    /\ cfg = NoConfig
    /\ pc = "direct"
    /\ repr = "list"
    /\ nodes = {}
    /\ parentKeys = <<>>
    /\ parentsOf = [n \in Names |-> <<>>]
    /\ order = <<>>
    /\ draws = <<>>
    /\ latent = EmptyLatent
    /\ err = "none"
    /\ result = NoResult
    /\ validated = "not run"
    /\ callNo = 1
    /\ firstCall = NoCall
    /\ item = NoItem

InitR2 ==
    /\ entry = "simulate_structural_latents:endogenous"
    /\ InitOther
    /\ generators = <<>>
    /\ biasRun = NoBiasRun
    /\ diag = NoDiag
    /\ session = NoSession
    /\ \E bv \in EndoPaths, r2 \in EndoTargets :
          endo = [stage |-> "betas", name |-> EndoName, beta_vector |-> bv,
                  r2_targets |-> r2, branch |-> "", r2 |-> <<0, 1>>,
                  weight2 |-> [lin_comb |-> <<0, 1>>, eps |-> <<0, 1>>]]

NextR2 == EndoCombine

SpecR2 == InitR2 /\ [][NextR2]_vars

\* C16: an explicit R2 target t with 0 < t < 1 is the r2 used, exactly; the
\* heuristic is used only when no target is provided or the target is 0.
C16_ExplicitTargetUsed ==
    endo.stage = "combined" =>
        LET t == R2Get(endo.r2_targets, endo.name)
        IN  IF 0 < t /\ t < 100
            THEN endo.branch = "target" /\ endo.r2[1] * 100 = t * endo.r2[2]
            ELSE endo.branch = "heuristic"

\* C17: with no explicit target the r2 used is clip(n / (1 + n), 0.10, 0.70)
\* where n = sqrt(sum of beta^2) is the Euclidean norm.  With ss = 100 n^2:
\* n / (1 + n) < 1/10 iff 81 ss < 100, > 7/10 iff 9 ss > 4900, and otherwise
\* r2 = n / (1 + n) iff ss (den - num)^2 = 100 num^2.
C17_EuclideanNormHeuristic ==
    (endo.stage = "combined" /\ R2Get(endo.r2_targets, endo.name) = 0) =>
        LET ss  == SumSquares(endo.beta_vector, 1)
            num == endo.r2[1]
            den == endo.r2[2]
        IN  IF 81 * ss < 100 THEN num * 10 = den
            ELSE IF 9 * ss > 4900 THEN num * 10 = 7 * den
            ELSE ss * (den - num) * (den - num) = 100 * num * num

(***************************************************************************)
(* The generators a run creates: generator.py:195, structural.py:169 and   *)
(* generator.py:133                                                        *)
(***************************************************************************)
MaxSeed == 3

\* generator.py:133: the offset of the demographics generator
DemographicsOffset == 777

\* SampleConfig.random_seed: Optional[int] = 123, not checked by __post_init__
NoSeed == [none |-> TRUE, v |-> 0]
RandomSeeds ==
    {NoSeed} \cup {[none |-> FALSE, v |-> n] : n \in (-1..MaxSeed) \cup {123, -777, -778}}

\* np.random.default_rng(arg): None pulls fresh entropy from the OS, a negative
\* integer raises ValueError, a non-negative integer is the seed
DefaultRng(site, arg, derived) ==
    IF arg.none THEN [site |-> site, seeded |-> "os entropy", seed |-> 0, derived |-> derived]
    ELSE IF arg.v < 0 THEN [site |-> site, seeded |-> "ValueError", seed |-> 0, derived |-> derived]
    ELSE [site |-> site, seeded |-> "seed", seed |-> arg.v, derived |-> derived]

\* generator.py:133: (sample.random_seed or 0) + 777
DemographicsSeed(random_seed) ==
    [none |-> FALSE,
     v |-> (IF random_seed.none \/ random_seed.v = 0 THEN 0 ELSE random_seed.v)
              + DemographicsOffset]

\* generate_dataset, lines 187-198: validation (errors swallowed), the main
\* generator, and the check that there are constructs
GenCreateRng ==
    /\ entry = "generate_dataset"
    /\ pc = "gen_rng"
    /\ LET g == DefaultRng("generator.py:195", cfg.sample.random_seed, FALSE)
       IN  /\ generators' = Append(generators, g)
           /\ IF g.seeded = "ValueError"
              THEN pc' = "done" /\ err' = "ValueError:seed"
              ELSE IF cfg.constructs = <<>>
              THEN pc' = "done" /\ err' = "ValueError:no constructs"
              ELSE pc' = "sim_rng" /\ err' = err
    /\ UNCHANGED <<entry, cfg, repr, nodes, parentKeys, parentsOf, order, draws, latent,
                   result, validated, callNo, firstCall, item, endo, biasRun, diag, session>>

\* simulate_structural_latents, lines 165-172: its own generator, then cons_map
\* (which raises on the dict generate_dataset passes, see SimStart)
SimCreateRng ==
    /\ entry \in {"generate_dataset", "simulate_structural_latents"}
    /\ pc = "sim_rng"
    /\ LET g == DefaultRng("structural.py:169", cfg.sample.random_seed, FALSE)
       IN  /\ generators' = Append(generators, g)
           /\ pc' = "done"
           /\ err' = IF g.seeded = "ValueError" THEN "ValueError:seed"
                     ELSE IF entry = "generate_dataset" THEN "AttributeError"
                     ELSE err
    /\ UNCHANGED <<entry, cfg, repr, nodes, parentKeys, parentsOf, order, draws, latent,
                   result, validated, callNo, firstCall, item, endo, biasRun, diag, session>>

\* _generate_demographics, lines 129-133
DemoCreateRng ==
    /\ entry = "_generate_demographics"
    /\ pc = "demo_rng"
    /\ pc' = "done"
    /\ IF ~cfg.add_demographics
       THEN UNCHANGED <<generators, err>>
       ELSE LET g == DefaultRng("generator.py:133",
                                DemographicsSeed(cfg.sample.random_seed), TRUE)
            IN  /\ generators' = Append(generators, g)
                /\ err' = IF g.seeded = "ValueError" THEN "ValueError:seed" ELSE err
    /\ UNCHANGED <<entry, cfg, repr, nodes, parentKeys, parentsOf, order, draws, latent,
                   result, validated, callNo, firstCall, item, endo, biasRun, diag, session>>

InitSeeds ==
    /\ \E e \in {"generate_dataset", "simulate_structural_latents", "_generate_demographics"},
          cs \in ConstructLists(0, 1), seed \in RandomSeeds, demo \in BOOLEAN :
          /\ entry = e
          /\ pc = CASE e = "generate_dataset" -> "gen_rng"
                    [] e = "simulate_structural_latents" -> "sim_rng"
                    [] OTHER -> "demo_rng"
          /\ cfg = [constructs |-> cs, paths |-> <<>>, r2_targets |-> NoR2,
                    bias |-> DefaultBias, add_demographics |-> demo,
                    sample |-> [DefaultSample EXCEPT !.random_seed = seed]]
    /\ repr = "list"
    /\ nodes = {}
    /\ parentKeys = <<>>
    /\ parentsOf = [n \in Names |-> <<>>]
    /\ order = <<>>
    /\ draws = <<>>
    /\ latent = EmptyLatent
    /\ err = "none"
    /\ result = NoResult
    /\ validated = "not run"
    /\ callNo = 1
    /\ firstCall = NoCall
    /\ item = NoItem
    /\ endo = NoEndo
    /\ generators = <<>>
    /\ biasRun = NoBiasRun
    /\ diag = NoDiag
    /\ session = NoSession

NextSeeds == GenCreateRng \/ SimCreateRng \/ DemoCreateRng

SpecSeeds == InitSeeds /\ [][NextSeeds]_vars

\* C18: every generator a run creates is seeded from sample.random_seed (the
\* main stream by the seed itself, a derived stream by the seed plus a fixed
\* non-zero offset) and none from OS entropy, for every accepted SampleConfig.
C18_SeededFromRandomSeed ==
    \A i \in 1..Len(generators) :
        LET g == generators[i]
            s == cfg.sample.random_seed
        IN  /\ g.seeded # "os entropy"
            /\ g.seeded = "seed" =>
                  g.seed = (IF s.none THEN 0 ELSE s.v)
                              + (IF g.derived THEN DemographicsOffset ELSE 0)

(***************************************************************************)
(* bias.py: apply_all_biases                                               *)
(* A frame is its cells (rows of integers), the set of cells holding NaN   *)
(* and its dtype.  Rates and levels are in hundredths.  The writes through *)
(* out.values are modelled as reaching the frame (a single-dtype frame).   *)
(***************************************************************************)
MaxBiasRows == 2

BiasColumns == 2
BiasLikertMin == 1
BiasLikertMax == 3

\* the rows of the item tables explored
BiasRowKinds == { <<1, 1>>, <<2, 3>>, <<3, 2>> }

BiasTables == [1..MaxBiasRows -> BiasRowKinds]

\* the table of the caller that applies the same arguments twice
TwiceTable == [r \in 1..MaxBiasRows |-> <<2, 3>>]

NoBias == [careless_rate |-> 0, straightlining_rate |-> 0, random_response_rate |-> 0,
           midpoint_bias_level |-> 0, extreme_bias_level |-> 0,
           acquiescence_level |-> 0, missing_rate |-> 0]

\* the keyword arguments explored: the defaults, each behaviour alone, and
\* combinations of a random with a deterministic one
BiasArguments ==
    { NoBias,
      [NoBias EXCEPT !.careless_rate = 50],
      [NoBias EXCEPT !.straightlining_rate = 50],
      [NoBias EXCEPT !.random_response_rate = 50],
      [NoBias EXCEPT !.midpoint_bias_level = 50],
      [NoBias EXCEPT !.extreme_bias_level = 50],
      [NoBias EXCEPT !.extreme_bias_level = 100],
      [NoBias EXCEPT !.acquiescence_level = 50],
      [NoBias EXCEPT !.acquiescence_level = -100],
      [NoBias EXCEPT !.missing_rate = 50],
      [NoBias EXCEPT !.midpoint_bias_level = 50, !.missing_rate = 50],
      [NoBias EXCEPT !.careless_rate = 50, !.extreme_bias_level = 100],
      [NoBias EXCEPT !.straightlining_rate = 50, !.acquiescence_level = 50,
                     !.missing_rate = 50] }

Frame(cells, nan, dtype) == [cells |-> cells, nan |-> nan, dtype |-> dtype]

NRows(f) == Len(f.cells)
NCols(f) == IF Len(f.cells) = 0 THEN 0 ELSE Len(f.cells[1])
CellsOf(f) == (1..NRows(f)) \X (1..NCols(f))

\* int(total * rate)
NAffect(total, rate) == (total * rate) \div 100

\* the cells in which two tables of one shape differ
Differing(f, cells) == {rc \in CellsOf(f) : f.cells[rc[1]][rc[2]] # cells[rc[1]][rc[2]]}

\* np.round: to the nearest integer, a tie to the even one
RoundHalfEven(num, den) ==
    LET q == num \div den
        r == num - q * den
    IN  IF 2 * r < den THEN q
        ELSE IF 2 * r > den THEN q + 1
        ELSE IF q % 2 = 0 THEN q ELSE q + 1

ClipTo(v, lo, hi) == IF v < lo THEN lo ELSE IF v > hi THEN hi ELSE v

\* apply_careless, lines 27-46: n_affect cells drawn with replacement from an
\* unseeded generator each receive a random value of the scale, so every table
\* that differs from the input in at most n_affect cells can come out
Careless(f, rate, likert_min, likert_max) ==
    IF rate <= 0 THEN {f}
    ELSE {Frame(t, f.nan, f.dtype) :
             t \in {t \in [1..NRows(f) -> [1..NCols(f) -> likert_min..likert_max]] :
                       Cardinality(Differing(f, t))
                          <= NAffect(NRows(f) * NCols(f), rate)}}

\* apply_straightlining, lines 52-69: int(n * rate) distinct rows, each filled
\* with one random value
Straightlining(f, rate, likert_min, likert_max) ==
    IF rate <= 0 THEN {f}
    ELSE {Frame([r \in 1..NRows(f) |->
                    IF r \in rows THEN [c \in 1..NCols(f) |-> v[r]] ELSE f.cells[r]],
                f.nan, f.dtype) :
             rows \in {R \in SUBSET (1..NRows(f)) : Cardinality(R) = NAffect(NRows(f), rate)},
             v \in [1..NRows(f) -> likert_min..likert_max]}

\* apply_random_responding, lines 75-90: int(n * rate) distinct rows replaced
\* by random rows
RandomResponding(f, rate, likert_min, likert_max) ==
    IF rate <= 0 THEN {f}
    ELSE {Frame([r \in 1..NRows(f) |-> IF r \in rows THEN m[r] ELSE f.cells[r]],
                f.nan, f.dtype) :
             rows \in {R \in SUBSET (1..NRows(f)) : Cardinality(R) = NAffect(NRows(f), rate)},
             m \in [1..NRows(f) -> [1..NCols(f) -> likert_min..likert_max]]}

\* apply_midpoint_bias, lines 96-107: out + level * (midpoint - out), rounded, clipped
MidpointBias(f, level, likert_min, likert_max) ==
    IF level <= 0 THEN {f}
    ELSE {Frame([r \in 1..NRows(f) |-> [c \in 1..NCols(f) |->
                    LET v == f.cells[r][c]
                    IN  ClipTo(RoundHalfEven(200 * v
                                   + level * (likert_min + likert_max - 2 * v), 200),
                               likert_min, likert_max)]],
                f.nan, "float64")}

\* apply_extremity_bias, lines 113-130: towards the nearer end of the scale
ExtremityBias(f, level, likert_min, likert_max) ==
    IF level <= 0 THEN {f}
    ELSE {Frame([r \in 1..NRows(f) |-> [c \in 1..NCols(f) |->
                    LET v == f.cells[r][c]
                        e == IF 2 * v >= likert_min + likert_max
                             THEN likert_max ELSE likert_min
                    IN  ClipTo(RoundHalfEven(100 * v + level * (e - v), 100),
                               likert_min, likert_max)]],
                f.nan, "float64")}

\* apply_acquiescence, lines 136-148: out + clip(level, -1, 1), rounded, clipped
Acquiescence(f, level, likert_min, likert_max) ==
    IF level = 0 THEN {f}
    ELSE {Frame([r \in 1..NRows(f) |-> [c \in 1..NCols(f) |->
                    ClipTo(RoundHalfEven(100 * f.cells[r][c] + ClipTo(level, -100, 100), 100),
                           likert_min, likert_max)]],
                f.nan, "float64")}

\* apply_missingness, lines 154-170: n_nan cells drawn with replacement are set
\* to NaN; writing NaN into an integer array raises ValueError
Missingness(f, rate) ==
    IF rate <= 0 THEN {[raised |-> FALSE, frame |-> f]}
    ELSE IF f.dtype = "int64"
    THEN {[raised |-> TRUE, frame |-> f]}
             \cup (IF NAffect(NRows(f) * NCols(f), rate) = 0
                   THEN {[raised |-> FALSE, frame |-> f]} ELSE {})
    ELSE {[raised |-> FALSE, frame |-> Frame(f.cells, f.nan \cup hit, f.dtype)] :
             hit \in {H \in SUBSET CellsOf(f) :
                         /\ Cardinality(H) <= NAffect(NRows(f) * NCols(f), rate)
                         /\ (H = {}) = (NAffect(NRows(f) * NCols(f), rate) = 0)}}

\* apply_all_biases, lines 194-200: the call that follows each one
StageAfterMisordered(step) ==
    CASE step = "careless" -> "straightlining"
      [] step = "straightlining" -> "random_responding"
      [] step = "random_responding" -> "extremity"
      [] step = "extremity" -> "midpoint"
      [] step = "midpoint" -> "acquiescence"
      [] step = "acquiescence" -> "missingness"
      [] OTHER -> "returned"

StageAfter(step) ==
    CASE step = "careless" -> "straightlining"
      [] step = "straightlining" -> "random_responding"
      [] step = "random_responding" -> "midpoint"
      [] step = "midpoint" -> "extremity"
      [] step = "extremity" -> "acquiescence"
      [] step = "acquiescence" -> "missingness"
      [] OTHER -> "returned"

\* out = apply_x(out, ...): the local out is rebound to what the call returned
Rebind(b, step, f) ==
    [b EXCEPT !.stage = StageAfter(step),
              !.out = f,
              !.trace = Append(@, [step |-> step, input |-> b.out, output |-> f])]

BiasUnchanged ==
    UNCHANGED <<entry, cfg, pc, repr, nodes, parentKeys, parentsOf, order, draws, latent,
                err, result, validated, callNo, firstCall, item, endo, generators, diag, session>>

\* line 194
ApplyCareless ==
    /\ biasRun.stage = "careless"
    /\ \E f \in Careless(biasRun.out, biasRun.args.careless_rate,
                         biasRun.likert_min, biasRun.likert_max) :
          biasRun' = Rebind(biasRun, "careless", f)
    /\ BiasUnchanged

\* line 195
ApplyStraightlining ==
    /\ biasRun.stage = "straightlining"
    /\ \E f \in Straightlining(biasRun.out, biasRun.args.straightlining_rate,
                               biasRun.likert_min, biasRun.likert_max) :
          biasRun' = Rebind(biasRun, "straightlining", f)
    /\ BiasUnchanged

\* line 196
ApplyRandomResponding ==
    /\ biasRun.stage = "random_responding"
    /\ \E f \in RandomResponding(biasRun.out, biasRun.args.random_response_rate,
                                 biasRun.likert_min, biasRun.likert_max) :
          biasRun' = Rebind(biasRun, "random_responding", f)
    /\ BiasUnchanged

\* line 197
ApplyMidpointBias ==
    /\ biasRun.stage = "midpoint"
    /\ \E f \in MidpointBias(biasRun.out, biasRun.args.midpoint_bias_level,
                             biasRun.likert_min, biasRun.likert_max) :
          biasRun' = Rebind(biasRun, "midpoint", f)
    /\ BiasUnchanged

\* line 198
ApplyExtremityBias ==
    /\ biasRun.stage = "extremity"
    /\ \E f \in ExtremityBias(biasRun.out, biasRun.args.extreme_bias_level,
                              biasRun.likert_min, biasRun.likert_max) :
          biasRun' = Rebind(biasRun, "extremity", f)
    /\ BiasUnchanged

\* line 199
ApplyAcquiescence ==
    /\ biasRun.stage = "acquiescence"
    /\ \E f \in Acquiescence(biasRun.out, biasRun.args.acquiescence_level,
                             biasRun.likert_min, biasRun.likert_max) :
          biasRun' = Rebind(biasRun, "acquiescence", f)
    /\ BiasUnchanged

\* lines 200-202: the last call, and the return
ApplyMissingness ==
    /\ biasRun.stage = "missingness"
    /\ \E m \in Missingness(biasRun.out, biasRun.args.missing_rate) :
          biasRun' = IF m.raised
                     THEN [biasRun EXCEPT !.stage = "returned", !.raised = "ValueError:NaN"]
                     ELSE Rebind(biasRun, "missingness", m.frame)
    /\ BiasUnchanged

\* the caller applies the same arguments to the same table again
BiasCallAgain ==
    /\ biasRun.stage = "returned"
    /\ biasRun.callNo < biasRun.calls
    /\ biasRun' = [biasRun EXCEPT
                      !.callNo = @ + 1,
                      !.first = [called |-> TRUE, raised |-> biasRun.raised,
                                 out |-> biasRun.out],
                      !.stage = "careless",
                      !.out = biasRun.df,
                      !.raised = "none",
                      !.trace = <<>>]
    /\ BiasUnchanged

InitBias ==
    /\ entry = "apply_all_biases"
    /\ InitOther
    /\ endo = NoEndo
    /\ generators = <<>>
    /\ diag = NoDiag
    /\ session = NoSession
    /\ \E t \in BiasTables, a \in BiasArguments, calls \in {1, 2} :
          /\ calls = 2 => t = TwiceTable
          /\ biasRun = [stage |-> "careless",
                        df |-> Frame(t, {}, "int64"),
                        given |-> Frame(t, {}, "int64"),
                        likert_min |-> BiasLikertMin, likert_max |-> BiasLikertMax,
                        args |-> a,
                        out |-> Frame(t, {}, "int64"),
                        raised |-> "none", trace |-> <<>>,
                        calls |-> calls, callNo |-> 1,
                        first |-> [called |-> FALSE, raised |-> "none",
                                   out |-> Frame(t, {}, "int64")]]

NextBias ==
    \/ ApplyCareless
    \/ ApplyStraightlining
    \/ ApplyRandomResponding
    \/ ApplyMidpointBias
    \/ ApplyExtremityBias
    \/ ApplyAcquiescence
    \/ ApplyMissingness
    \/ BiasCallAgain

SpecBias == InitBias /\ [][NextBias]_vars

\* C19: two calls with the same arguments return the same table, and the
\* table passed in is left as it was given.
C19_PureFunction ==
    /\ biasRun.stage # "unused" => biasRun.df = biasRun.given
    /\ (biasRun.stage = "returned" /\ biasRun.callNo = 2) =>
          /\ biasRun.raised = biasRun.first.raised
          /\ biasRun.out = biasRun.first.out

BiasOrder ==
    <<"careless", "straightlining", "random_responding", "midpoint", "extremity",
      "acquiescence", "missingness">>

BiasParameter(args, step) ==
    CASE step = "careless" -> args.careless_rate
      [] step = "straightlining" -> args.straightlining_rate
      [] step = "random_responding" -> args.random_response_rate
      [] step = "midpoint" -> args.midpoint_bias_level
      [] step = "extremity" -> args.extreme_bias_level
      [] step = "acquiescence" -> args.acquiescence_level
      [] OTHER -> args.missing_rate

\* C20: the transformations run in the order careless, straight-lining,
\* random-responding, midpoint, extremity, acquiescence, missingness, each on
\* the output of the one before (the first on the table given); one whose
\* rate or level is 0 returns its input; with every parameter 0 the table
\* returned is the table given.
C20_FixedOrder ==
    biasRun.stage # "unused" =>
        /\ Len(biasRun.trace) <= Len(BiasOrder)
        /\ \A i \in 1..Len(biasRun.trace) :
              /\ biasRun.trace[i].step = BiasOrder[i]
              /\ biasRun.trace[i].input =
                    IF i = 1 THEN biasRun.df ELSE biasRun.trace[i - 1].output
              /\ BiasParameter(biasRun.args, BiasOrder[i]) = 0 =>
                    biasRun.trace[i].output = biasRun.trace[i].input
        /\ (biasRun.stage = "returned" /\ biasRun.raised = "none") =>
              /\ Len(biasRun.trace) = Len(BiasOrder)
              /\ biasRun.out = biasRun.trace[Len(BiasOrder)].output
              /\ biasRun.args = NoBias => biasRun.out = biasRun.df

\* a return after a random, a deterministic and a pass-through transformation
\* that changed the table
C20_Witness ==
    /\ biasRun.stage = "returned"
    /\ biasRun.raised = "none"
    /\ biasRun.args.careless_rate > 0
    /\ biasRun.args.extreme_bias_level > 0
    /\ biasRun.args.midpoint_bias_level = 0
    /\ biasRun.trace[1].output # biasRun.trace[1].input
    /\ biasRun.trace[5].output # biasRun.trace[5].input
    /\ biasRun.out # biasRun.df

(***************************************************************************)
(* diagnostics.py                                                          *)
(* An item table is its column names, its number of rows, the integer in   *)
(* every cell and the set nan of cells that are missing (NaN, or text that *)
(* pd.to_numeric coerces to NaN).  A block is a list of columns with the   *)
(* set of rows (index labels) still in it.  A number is an exact fraction  *)
(* or NaN; a correlation is kept as its sign and its square.               *)
(***************************************************************************)
MaxDiagRows == 3

NaN == [kind |-> "nan", num |-> 0, den |-> 1]
Inf == [kind |-> "inf", num |-> 0, den |-> 1]
Num(num, den) == [kind |-> "num", num |-> num, den |-> den]

\* float arithmetic on fractions: NaN propagates, x / 0 is inf (0 / 0 is NaN)
FAdd(a, b) ==
    IF a.kind # "num" \/ b.kind # "num" THEN NaN
    ELSE Num(a.num * b.den + b.num * a.den, a.den * b.den)

FDiv(a, b) ==
    IF a.kind # "num" \/ b.kind # "num" THEN NaN
    ELSE IF b.num = 0 THEN (IF a.num = 0 THEN NaN ELSE Inf)
    ELSE IF b.num > 0 THEN Num(a.num * b.den, a.den * b.num)
    ELSE Num(-(a.num * b.den), -(a.den * b.num))

FOneMinus(a) == IF a.kind # "num" THEN a ELSE Num(a.den - a.num, a.den)

FScale(p, q, a) == IF a.kind # "num" THEN a ELSE Num(p * a.num, q * a.den)

RECURSIVE SetSum(_, _)
\* the sum of f over the set S
SetSum(S, f) ==
    IF S = {} THEN 0
    ELSE LET x == CHOOSE y \in S : TRUE
         IN  f[x] + SetSum(S \ {x}, f)

RECURSIVE FSum(_, _)
\* Series.sum() / np.sum with skipna: NaN terms are left out
FSum(terms, i) ==
    IF i > Len(terms) THEN Num(0, 1)
    ELSE IF terms[i].kind = "nan" THEN FSum(terms, i + 1)
    ELSE FAdd(terms[i], FSum(terms, i + 1))

Present(t, c, r) == <<c, r>> \notin t.nan

\* _safe_numeric_df, lines 25-29: dropna(how="all"), the rows with no value at
\* all in the columns of the block go
SafeNumericDf(t, cols, rows) ==
    {r \in rows : \E i \in 1..Len(cols) : Present(t, cols[i], r)}

\* Series.var(ddof=1) of f over the rows R (the rows that hold a value)
Var(f, R) ==
    LET n == Cardinality(R)
    IN  IF n < 2 THEN NaN
        ELSE Num(n * SetSum(R, [r \in R |-> f[r] * f[r]])
                    - SetSum(R, f) * SetSum(R, f),
                 n * (n - 1))

\* df.sum(axis=1): the sum of the values a row holds
RowSum(t, cols, r) ==
    SetSum({i \in 1..Len(cols) : Present(t, cols[i], r)},
           [i \in 1..Len(cols) |-> t.v[cols[i]][r]])

\* cronbach_alpha, lines 41-42
ItemVars(t, cols, rows) ==
    [i \in 1..Len(cols) |-> Var(t.v[cols[i]], {r \in rows : Present(t, cols[i], r)})]

TotalVar(t, cols, rows) == Var([r \in rows |-> RowSum(t, cols, r)], rows)

\* cronbach_alpha, lines 35-48, without the test of line 44
CronbachAlphaUnguarded(t, cols, rows0) ==
    LET rows == SafeNumericDf(t, cols, rows0)
        k    == Len(cols)
    IN  IF k < 2 THEN NaN
        ELSE FScale(k, k - 1,
                    FOneMinus(FDiv(FSum(ItemVars(t, cols, rows), 1),
                                   TotalVar(t, cols, rows))))

\* cronbach_alpha, lines 35-48
CronbachAlpha(t, cols, rows0) ==
    LET rows      == SafeNumericDf(t, cols, rows0)
        k         == Len(cols)
        total_var == TotalVar(t, cols, rows)
    IN  IF k < 2 THEN NaN
        ELSE IF total_var.kind = "num" /\ total_var.num <= 0 THEN NaN
        ELSE FScale(k, k - 1,
                    FOneMinus(FDiv(FSum(ItemVars(t, cols, rows), 1), total_var)))

Sgn(x) == IF x > 0 THEN 1 ELSE IF x < 0 THEN -1 ELSE 0

NoCorr == [kind |-> "nan", sign |-> 0, num |-> 0, den |-> 1]
Corr(sign, num, den) == [kind |-> "num", sign |-> sign, num |-> num, den |-> den]

\* Pearson's r of f and g over the rows R, as its sign and its square; NaN
\* with fewer than 2 rows or a constant series (0 / 0)
Pearson(f, g, R) ==
    LET n   == Cardinality(R)
        sf  == SetSum(R, f)
        sg  == SetSum(R, g)
        cov == n * SetSum(R, [r \in R |-> f[r] * g[r]]) - sf * sg
        vf  == n * SetSum(R, [r \in R |-> f[r] * f[r]]) - sf * sf
        vg  == n * SetSum(R, [r \in R |-> g[r] * g[r]]) - sg * sg
    IN  IF n < 2 \/ vf = 0 \/ vg = 0 THEN NoCorr
        ELSE Corr(Sgn(cov), cov * cov, vf * vg)

RECURSIVE Factorial(_)
Factorial(k) == IF k <= 1 THEN 1 ELSE k * Factorial(k - 1)

\* df.mean(axis=1) times k!: the mean of the values a row holds, kept integral
\* (a correlation does not change with the scale)
RowMean(t, cols, r) ==
    LET held == Cardinality({i \in 1..Len(cols) : Present(t, cols[i], r)})
    IN  (Factorial(Len(cols)) \div held) * RowSum(t, cols, r)

RECURSIVE FracLess(_, _, _, _)
\* a / b < c / d for a, c >= 0 and b, d > 0, by continued fractions (no products)
FracLess(a, b, c, d) ==
    LET qa == a \div b
        qc == c \div d
        ra == a - qa * b
        rc == c - qc * d
    IN  IF qa # qc THEN qa < qc
        ELSE IF rc = 0 THEN FALSE
        ELSE IF ra = 0 THEN TRUE
        ELSE FracLess(d, rc, b, ra)

\* line 63: fillna(0).clip(-0.999, 0.999); 0.999^2 = 998001 / 1000000
FillClip(c) ==
    IF c.kind = "nan" THEN Corr(0, 0, 1)
    ELSE IF FracLess(998001, 1000000, c.num, c.den) THEN Corr(c.sign, 998001, 1000000)
    ELSE c

\* compute_loadings, lines 54-65: np.corrcoef of each column with the row
\* means; a column with a missing value gives NaN
ComputeLoadings(t, cols, rows0) ==
    LET rows == SafeNumericDf(t, cols, rows0)
    IN  [i \in 1..Len(cols) |->
            FillClip(IF \E r \in rows : ~Present(t, cols[i], r) THEN NoCorr
                     ELSE Pearson(t.v[cols[i]],
                                  [r \in rows |-> RowMean(t, cols, r)], rows))]

\* composite_reliability, lines 68-80, for errors = 1 - loadings^2: every
\* error is at least 1 - 0.999^2 > 0, so lam_sq + theta_sum is 0 only for no
\* loadings; the value is kept as the formula applied to the loadings
CompositeReliability(loadings) ==
    [kind |-> IF Len(loadings) = 0 THEN "nan" ELSE "num",
     formula |-> "(sum l)^2 / ((sum l)^2 + sum(1 - l^2))",
     loadings |-> IF Len(loadings) = 0 THEN <<>> ELSE loadings]

\* ave, lines 86-87: np.mean(loadings ** 2), NaN for no loadings; kept as the
\* formula applied to the loadings
Ave(loadings) ==
    [kind |-> IF Len(loadings) = 0 THEN "nan" ELSE "num",
     formula |-> "mean(l^2)",
     loadings |-> IF Len(loadings) = 0 THEN <<>> ELSE loadings]

\* line 109-110: df_a.corrwith(df_b) aligns the two blocks on column labels and
\* on rows: only a label both blocks have is correlated (with itself), every
\* other label gets NaN; then abs() and dropna()
Het(t, cols_a, cols_b, rows0) ==
    LET rows == SafeNumericDf(t, cols_a, rows0) \cap SafeNumericDf(t, cols_b, rows0)
    IN  {[pair |-> <<c, c>>, r |-> Pearson(t.v[c], t.v[c], {r \in rows : Present(t, c, r)})] :
            c \in {c \in Range(cols_a) \cap Range(cols_b) :
                     Pearson(t.v[c], t.v[c], {r \in rows : Present(t, c, r)}).kind = "num"}}

\* lines 115-122: the entries of df.corr().abs() (pairwise complete rows) that
\* are below 0.9999 (0.9999^2 = 99980001 / 10^8); NaN compares false and is left out with the diagonal
OffDiag(t, cols, rows0) ==
    LET rows == SafeNumericDf(t, cols, rows0)
        r2(i, j) == Pearson(t.v[cols[i]], t.v[cols[j]],
                            {r \in rows : Present(t, cols[i], r) /\ Present(t, cols[j], r)})
    IN  {[pair |-> <<cols[ij[1]], cols[ij[2]]>>, r |-> r2(ij[1], ij[2])] :
            ij \in {ij \in (1..Len(cols)) \X (1..Len(cols)) :
                      /\ r2(ij[1], ij[2]).kind = "num"
                      /\ FracLess(r2(ij[1], ij[2]).num, r2(ij[1], ij[2]).den,
                                  99980001, 100000000)}}

HtmtNaN == [kind |-> "nan", het |-> {}, mono_a |-> {}, mono_b |-> {}]
HtmtOne == [kind |-> "one", het |-> {}, mono_a |-> {}, mono_b |-> {}]

\* compute_htmt, lines 93-130; the ratio is kept as its three lists of
\* correlations: mean(het) / sqrt(mean(mono_a) * mean(mono_b))
ComputeHtmt(t, cols_a, cols_b, rows0) ==
    LET het    == Het(t, cols_a, cols_b, rows0)
        mono_a == OffDiag(t, cols_a, rows0)
        mono_b == OffDiag(t, cols_b, rows0)
    IN  IF het = {} THEN HtmtNaN
        ELSE IF mono_a = {} \/ mono_b = {} THEN HtmtNaN
        ELSE IF (\A e \in mono_a : e.r.num = 0) \/ (\A e \in mono_b : e.r.num = 0)
        THEN HtmtNaN
        ELSE [kind |-> "ratio", het |-> het, mono_a |-> mono_a, mono_b |-> mono_b]

\* construct_map[cons]
Indicators(construct_map, cons) ==
    construct_map[CHOOSE i \in 1..Len(construct_map) : construct_map[i].cons = cons].indicators

Constructs(construct_map) == {construct_map[i].cons : i \in 1..Len(construct_map)}

\* lines 199-209: the diagonal is set to 1.0 without looking at the data
HtmtEntryAlwaysComputed(t, construct_map, a, b, rows0) ==
    ComputeHtmt(t, Indicators(construct_map, a), Indicators(construct_map, b), rows0)

HtmtEntry(t, construct_map, a, b, rows0) ==
    IF a = b THEN HtmtOne
    ELSE ComputeHtmt(t, Indicators(construct_map, a), Indicators(construct_map, b), rows0)

\* lines 185-191: the correlation of the row means of two constructs over the
\* rows where both have one
ConstructCorrelation(t, cols_a, cols_b, rows0) ==
    LET rows == SafeNumericDf(t, cols_a, rows0) \cap SafeNumericDf(t, cols_b, rows0)
    IN  Pearson([r \in rows |-> RowMean(t, cols_a, r)],
                [r \in rows |-> RowMean(t, cols_b, r)], rows)

NoResults == [raised |-> "none", alpha |-> <<>>, cr |-> <<>>, ave |-> <<>>,
              construct_correlations |-> <<>>, htmt |-> <<>>]

\* compute_measurement_diagnostics, lines 136-213
ComputeMeasurementDiagnostics(t, construct_map) ==
    LET rows0 == SafeNumericDf(t, t.cols, 1..t.n)
        names == Constructs(construct_map)
    IN  IF \E c \in names : ~(Range(Indicators(construct_map, c)) \subseteq Range(t.cols))
        THEN [NoResults EXCEPT !.raised = "KeyError"]
        ELSE [raised |-> "none",
              alpha |-> [c \in names |-> CronbachAlpha(t, Indicators(construct_map, c), rows0)],
              cr |-> [c \in names |->
                        CompositeReliability(
                            ComputeLoadings(t, Indicators(construct_map, c), rows0))],
              ave |-> [c \in names |->
                         Ave(ComputeLoadings(t, Indicators(construct_map, c), rows0))],
              construct_correlations |->
                  [a \in names |-> [b \in names |->
                      ConstructCorrelation(t, Indicators(construct_map, a),
                                           Indicators(construct_map, b), rows0)]],
              htmt |-> [a \in names |-> [b \in names |->
                          HtmtEntry(t, construct_map, a, b, rows0)]]]

DiagUnchanged ==
    UNCHANGED <<entry, cfg, pc, repr, nodes, parentKeys, parentsOf, order, draws, latent,
                err, result, validated, callNo, firstCall, item, endo, generators, biasRun,
                session>>

\* a call of compute_measurement_diagnostics (app/Diagnostics.py:120)
DiagCompute ==
    /\ entry = "compute_measurement_diagnostics"
    /\ diag.stage = "called"
    /\ diag' = [diag EXCEPT
                   !.stage = "returned",
                   !.results = ComputeMeasurementDiagnostics(diag.items, diag.construct_map)]
    /\ DiagUnchanged

\* a call of cronbach_alpha on the columns df_cols of the table
DiagCronbachAlpha ==
    /\ entry = "cronbach_alpha"
    /\ diag.stage = "called"
    /\ diag' = [diag EXCEPT
                   !.stage = "returned",
                   !.alpha = CronbachAlpha(diag.items, diag.df_cols, 1..diag.items.n)]
    /\ DiagUnchanged

DiagItems == <<"A_1", "A_2", "B_1", "B_2">>

\* the columns explored, for n rows: ascending, descending, ascending with the
\* last two rows swapped, constant, all missing, ascending with row 1 missing
ColumnKinds(c, n) ==
    LET Ascending  == [v |-> [r \in 1..n |-> r], miss |-> {}]
        Descending == [v |-> [r \in 1..n |-> n + 1 - r], miss |-> {}]
        Swapped    == [v |-> [r \in 1..n |-> IF n >= 2 /\ r = n THEN n - 1
                                             ELSE IF n >= 2 /\ r = n - 1 THEN n ELSE r],
                       miss |-> {}]
        Constant   == [v |-> [r \in 1..n |-> 2], miss |-> {}]
        AllMissing == [v |-> [r \in 1..n |-> 0], miss |-> 1..n]
        Gap        == [v |-> [r \in 1..n |-> r], miss |-> {1}]
    IN  CASE c = "A_1" -> {Ascending, Constant, AllMissing, Gap}
          [] c = "A_2" -> {Ascending, Descending, Swapped, Constant}
          [] c = "B_1" -> {Ascending, Swapped, Constant, AllMissing}
          [] OTHER -> {Descending, Swapped, Gap}

ItemTables ==
    UNION {{[cols |-> DiagItems, n |-> n,
             v |-> [c \in Range(DiagItems) |-> k[c].v],
             nan |-> {cr \in Range(DiagItems) \X (1..n) : cr[2] \in k[cr[1]].miss}] :
               k \in {k \in [Range(DiagItems) -> UNION {ColumnKinds(c, n) : c \in Range(DiagItems)}] :
                        \A c \in Range(DiagItems) : k[c] \in ColumnKinds(c, n)}} :
           n \in 1..MaxDiagRows}

\* construct maps: as app/Diagnostics.py builds them from the column prefixes,
\* with a single-item and an empty construct, with a column in two constructs,
\* and with a column the table does not have
ConstructMaps ==
    { << [cons |-> "A", indicators |-> <<"A_1", "A_2">>],
         [cons |-> "B", indicators |-> <<"B_1", "B_2">>] >>,
      << [cons |-> "A", indicators |-> <<"A_1", "A_2">>],
         [cons |-> "B", indicators |-> <<"B_1">>] >>,
      << [cons |-> "B", indicators |-> <<>>],
         [cons |-> "A", indicators |-> <<"A_1", "A_2">>] >>,
      << [cons |-> "A", indicators |-> <<"A_1", "A_2">>],
         [cons |-> "B", indicators |-> <<"B_1", "B_2">>],
         [cons |-> "C", indicators |-> <<"A_2", "B_2">>] >>,
      << [cons |-> "A", indicators |-> <<"A_1", "A_2">>],
         [cons |-> "B", indicators |-> <<"B_9">>] >> }

DataFrames == { <<>>, <<"A_1">>, <<"A_1", "A_2">>, <<"A_2", "B_1", "B_2">> }

InitDiag ==
    /\ InitOther
    /\ endo = NoEndo
    /\ generators = <<>>
    /\ biasRun = NoBiasRun
    /\ session = NoSession
    /\ \E t \in ItemTables :
          \/ /\ entry = "compute_measurement_diagnostics"
             /\ \E m \in ConstructMaps :
                   diag = [stage |-> "called", items |-> t, construct_map |-> m,
                           df_cols |-> <<>>, results |-> NoResults, alpha |-> NaN]
          \/ /\ entry = "cronbach_alpha"
             /\ \E cols \in DataFrames :
                   diag = [stage |-> "called", items |-> t, construct_map |-> <<>>,
                           df_cols |-> cols, results |-> NoResults, alpha |-> NaN]

NextDiag == DiagCompute \/ DiagCronbachAlpha

SpecDiag == InitDiag /\ [][NextDiag]_vars

DiagReturned ==
    /\ entry = "compute_measurement_diagnostics"
    /\ diag.stage = "returned"

IndicatorsExist ==
    \A c \in Constructs(diag.construct_map) :
        Range(Indicators(diag.construct_map, c)) \subseteq Range(diag.items.cols)

\* the column holds two different values
NonConstant(t, c) ==
    \E r1, r2 \in 1..t.n :
        Present(t, c, r1) /\ Present(t, c, r2) /\ t.v[c][r1] # t.v[c][r2]

AllMissingColumn(t, c) == \A r \in 1..t.n : ~Present(t, c, r)

\* the correlation of two columns over the rows where both hold a value
ColumnCorrelation(t, c, d) ==
    Pearson(t.v[c], t.v[d], {r \in 1..t.n : Present(t, c, r) /\ Present(t, d, r)})

\* C11: for constructs a # b with different, non-constant item columns HTMT[a,b]
\* is a number: the mean absolute correlation over every (item of a, item of b)
\* pair over the geometric mean of the two mean absolute within-construct
\* off-diagonal correlations.
C11_HtmtDefined ==
    (DiagReturned /\ diag.results.raised = "none") =>
        \A a, b \in Constructs(diag.construct_map) :
            LET ia == Indicators(diag.construct_map, a)
                ib == Indicators(diag.construct_map, b)
            IN  (/\ a # b
                 /\ Range(ia) \cap Range(ib) = {}
                 /\ ia # <<>> /\ ib # <<>>
                 /\ \A c \in Range(ia) \cup Range(ib) : NonConstant(diag.items, c)) =>
                    /\ diag.results.htmt[a][b].kind = "ratio"
                    /\ diag.results.htmt[a][b].het =
                          {[pair |-> <<c, d>>, r |-> ColumnCorrelation(diag.items, c, d)] :
                              c \in Range(ia), d \in Range(ib)}
                    /\ diag.results.htmt[a][b].mono_a =
                          {[pair |-> cd, r |-> ColumnCorrelation(diag.items, cd[1], cd[2])] :
                              cd \in {cd \in Range(ia) \X Range(ia) : cd[1] # cd[2]}}
                    /\ diag.results.htmt[a][b].mono_b =
                          {[pair |-> cd, r |-> ColumnCorrelation(diag.items, cd[1], cd[2])] :
                              cd \in {cd \in Range(ib) \X Range(ib) : cd[1] # cd[2]}}

\* C12: the HTMT diagonal of every construct is exactly 1.0, whatever the data.
C12_HtmtDiagonalOne ==
    DiagReturned =>
        /\ IndicatorsExist => diag.results.raised = "none"
        /\ diag.results.raised = "none" =>
              \A c \in Constructs(diag.construct_map) : diag.results.htmt[c][c] = HtmtOne

\* a table in which a construct has an all-missing and a constant column, and
\* its diagonal entry is 1.0 while its entries against the others are missing
C12_Witness ==
    /\ DiagReturned
    /\ diag.results.raised = "none"
    /\ AllMissingColumn(diag.items, "B_1")
    /\ ~NonConstant(diag.items, "A_1")
    /\ "B" \in Constructs(diag.construct_map)
    /\ Len(Indicators(diag.construct_map, "B")) = 2
    /\ diag.results.htmt["B"]["B"] = HtmtOne
    /\ diag.results.htmt["A"]["A"] = HtmtOne
    /\ diag.results.htmt["A"]["B"].kind = "nan"

\* C13: a construct with fewer than 2 indicators gets alpha, CR and AVE all
\* missing, and nothing is raised.
C13_TooFewItemsMissing ==
    (DiagReturned /\ IndicatorsExist) =>
        /\ diag.results.raised = "none"
        /\ \A c \in Constructs(diag.construct_map) :
              Len(Indicators(diag.construct_map, c)) < 2 =>
                 /\ diag.results.alpha[c].kind = "nan"
                 /\ diag.results.cr[c].kind = "nan"
                 /\ diag.results.ave[c].kind = "nan"

\* what C14 says cronbach_alpha returns for the block cols of t
AlphaAsClaimed(t, cols, rows0) ==
    LET rows == SafeNumericDf(t, cols, rows0)
        k    == Len(cols)
        tv   == Var([r \in rows |-> RowSum(t, cols, r)], rows)
    IN  IF k < 2 \/ (tv.kind = "num" /\ tv.num = 0) THEN NaN
        ELSE FScale(k, k - 1, FOneMinus(FDiv(FSum(ItemVars(t, cols, rows), 1), tv)))

\* C14: cronbach_alpha returns the missing value for fewer than 2 columns or a
\* zero variance of the row sums, and (k/(k-1)) (1 - sum of item variances /
\* variance of row sums) in every other case; it never raises.
C14_AlphaOrMissing ==
    /\ (entry = "cronbach_alpha" /\ diag.stage = "returned") =>
          /\ diag.alpha = AlphaAsClaimed(diag.items, diag.df_cols, 1..diag.items.n)
          /\ diag.alpha.kind \in {"nan", "num"}
    /\ (DiagReturned /\ diag.results.raised = "none") =>
          \A c \in Constructs(diag.construct_map) :
              diag.results.alpha[c] =
                 AlphaAsClaimed(diag.items, Indicators(diag.construct_map, c),
                                SafeNumericDf(diag.items, diag.items.cols, 1..diag.items.n))

\* two columns with non-zero variances whose row sums are constant: missing
C14_Witness ==
    /\ entry = "cronbach_alpha"
    /\ diag.stage = "returned"
    /\ diag.df_cols = <<"A_1", "A_2">>
    /\ diag.items.n >= 2
    /\ NonConstant(diag.items, "A_1")
    /\ NonConstant(diag.items, "A_2")
    /\ \A r \in 1..diag.items.n : Present(diag.items, "A_1", r)
    /\ TotalVar(diag.items, diag.df_cols, 1..diag.items.n) = Num(0, diag.items.n * (diag.items.n - 1))
    /\ diag.alpha = NaN

\* the table with only the columns in cols, and the map with only the constructs in S
OnlyColumns(t, cols) ==
    [t EXCEPT !.cols = SelectSeq(t.cols, LAMBDA c : c \in cols),
              !.nan = {cr \in t.nan : cr[1] \in cols}]

OnlyConstructs(construct_map, S) == SelectSeq(construct_map, LAMBDA e : e.cons \in S)

\* the construct is degenerate: a single indicator, only constant indicators,
\* or an all-missing column
Degenerate(t, construct_map, c) ==
    \/ Len(Indicators(construct_map, c)) = 1
    \/ /\ Indicators(construct_map, c) # <<>>
       /\ \A i \in Range(Indicators(construct_map, c)) : ~NonConstant(t, i)
    \/ \E i \in Range(Indicators(construct_map, c)) : AllMissingColumn(t, i)

\* the statistics of a construct (a pair) are what they are for the table and
\* the map without the other constructs
StatisticsAreLocal ==
    LET names == Constructs(diag.construct_map)
        res   == diag.results
    IN  /\ \A c \in names :
              LET alone == ComputeMeasurementDiagnostics(
                               OnlyColumns(diag.items,
                                           Range(Indicators(diag.construct_map, c))),
                               OnlyConstructs(diag.construct_map, {c}))
              IN  /\ res.alpha[c] = alone.alpha[c]
                  /\ res.cr[c] = alone.cr[c]
                  /\ res.ave[c] = alone.ave[c]
        /\ \A a, b \in names :
              LET pair == ComputeMeasurementDiagnostics(
                              OnlyColumns(diag.items,
                                          Range(Indicators(diag.construct_map, a))
                                             \cup Range(Indicators(diag.construct_map, b))),
                              OnlyConstructs(diag.construct_map, {a, b}))
              IN  res.htmt[a][b] = pair.htmt[a][b]

\* C15: there is an alpha, CR and AVE entry for every construct and an HTMT
\* entry for every ordered pair; nothing is raised; a degenerate construct (a
\* single item, constant items, an all-missing column) gets missing values;
\* and the statistics of the other constructs are as they are without it.
C15_DegenerateMissingOthersUntouched ==
    (DiagReturned /\ IndicatorsExist) =>
        LET names == Constructs(diag.construct_map)
            res   == diag.results
        IN  /\ res.raised = "none"
            /\ DOMAIN res.alpha = names /\ DOMAIN res.cr = names /\ DOMAIN res.ave = names
            /\ DOMAIN res.htmt = names
            /\ \A a \in names : DOMAIN res.htmt[a] = names
            /\ \A c \in names :
                  Degenerate(diag.items, diag.construct_map, c) =>
                     /\ res.alpha[c].kind = "nan"
                     /\ res.cr[c].kind = "nan"
                     /\ res.ave[c].kind = "nan"
            /\ StatisticsAreLocal

(***************************************************************************)
(* The Streamlit session: streamlit_app.py, app/Home.py, app/ExportCenter.py*)
(*                                                                         *)
(* A page script runs from top to bottom on every interaction; the only    *)
(* state that survives a run is st.session_state.  attempts is the history *)
(* of the clicks on "Generate synthetic data", kept to state the           *)
(* properties; an artifact is named by the attempt that stored it.         *)
(***************************************************************************)
MaxAttempts == 3

None == [kind |-> "None", from |-> 0]
Artifact(kind, k) == [kind |-> kind, from |-> k]

\* ConstructConfig.__post_init__, core/config.py:139-161, for a row of the
\* cleaned construct table (name stripped and non-empty, n_items > 0);
\* loading bounds in hundredths
ConstructPostInit(row) ==
    IF row.distribution \notin {"normal", "skewed", "uniform", "lognormal", "beta"}
    THEN "ValueError:distribution"
    ELSE IF ~(0 < row.target_loading_min /\ row.target_loading_min <= row.target_loading_mean
              /\ row.target_loading_mean <= row.target_loading_max
              /\ row.target_loading_max < 100)
    THEN "ValueError:loading bounds"
    ELSE "ok"

\* generate_dataset as its caller sees it, generator.py:169-255: the empty
\* check of line 197, then simulate_structural_latents is handed the
\* constructs as a dict (lines 206-209) and raises at structural.py:172
GenerateDataset(c) ==
    IF c.constructs = <<>>
    THEN [err |-> "ValueError:constructs is empty", result |-> NoResult]
    ELSE [err |-> "AttributeError", result |-> NoResult]

\* Home.py:238-283: the ModelConfig built from the widgets
HomeModelConfig(w) ==
    [constructs |-> [i \in 1..Len(w.construct_df) |->
                        [name |-> w.construct_df[i].name,
                         n_items |-> w.construct_df[i].n_items]],
     paths |-> <<>>, r2_targets |-> NoR2, bias |-> DefaultBias,
     add_demographics |-> w.add_demographics,
     sample |-> [DefaultSample EXCEPT !.likert_min = w.likert_min,
                                      !.likert_max = w.likert_max]]

\* Home.py:225-286: what a click on the button comes to, up to the return of
\* generate_dataset
HomeAttempt(w) ==
    IF w.likert_max <= w.likert_min
    THEN [outcome |-> "rejected", err |-> "Fix Likert scale"]
    ELSE IF w.construct_df = <<>>
    THEN [outcome |-> "rejected", err |-> "Define at least one construct"]
    ELSE IF \E i \in 1..Len(w.construct_df) : ConstructPostInit(w.construct_df[i]) # "ok"
    THEN [outcome |-> "raised",
          err |-> ConstructPostInit(
                      w.construct_df[CHOOSE i \in 1..Len(w.construct_df) :
                          /\ ConstructPostInit(w.construct_df[i]) # "ok"
                          /\ \A j \in 1..(i - 1) :
                                ConstructPostInit(w.construct_df[j]) = "ok"])]
    ELSE LET g == GenerateDataset(HomeModelConfig(w))
         IN  IF g.err # "none" THEN [outcome |-> "raised", err |-> g.err]
             ELSE [outcome |-> "stored", err |-> "none"]

\* mutant of HomeGenerateClicked: model_cfg is stored as soon as it is built,
\* before generate_dataset is called
HomeGenerateClickedConfigFirst(ss, w) ==
    LET a == HomeAttempt(w)
        k == Len(ss.attempts) + 1
        built == a.outcome = "stored" \/ (a.outcome = "raised" /\ a.err = "AttributeError")
    IN  [ss EXCEPT !.attempts = Append(@, a),
                   !.last_full_df = IF a.outcome = "stored" THEN Artifact("full_df", k) ELSE @,
                   !.last_items_df = IF a.outcome = "stored" THEN Artifact("items_df", k) ELSE @,
                   !.last_model_cfg = IF built THEN Artifact("model_cfg", k) ELSE @]

\* Home.py:225-311, the generate_clicked handler: lines 289-291 run only when
\* nothing before them raised or rejected
HomeGenerateClicked(ss, w) ==
    LET a == HomeAttempt(w)
        k == Len(ss.attempts) + 1
    IN  [ss EXCEPT !.attempts = Append(@, a),
                   !.last_full_df = IF a.outcome = "stored" THEN Artifact("full_df", k) ELSE @,
                   !.last_items_df = IF a.outcome = "stored" THEN Artifact("items_df", k) ELSE @,
                   !.last_model_cfg = IF a.outcome = "stored" THEN Artifact("model_cfg", k) ELSE @]

\* utils/export.py:26-45: the optional libraries found at import time
Libraries == [pyreadstat : BOOLEAN, pyreadr : BOOLEAN, reportlab : BOOLEAN]

OptionalFormats == {"pdf", "spss", "stata", "rds"}

\* the library an optional format needs: export.py:169, 178, 187, 241
LibraryOf(f) ==
    IF f = "pdf" THEN "reportlab" ELSE IF f = "rds" THEN "pyreadr" ELSE "pyreadstat"

NoExportRun ==
    [stopped |-> FALSE, message |-> "not run", after |-> 0, called |-> <<>>,
     payloads |-> {}, caught |-> {}]

\* ExportCenter.py:75-122 for a dataset that is there.  Lines 75-86 make the
\* required calls; export_codebook_pdf is called only when reportlab was
\* imported (88-99); export_spss, export_stata and export_rds are always
\* called, raise ImportError without their library (export.py:169-188) and are
\* caught one by one (106-122).  works[f] says whether the library call
\* itself goes through once the library is there.
ExportPrepared(libs, works) ==
    [stopped |-> FALSE, message |-> "none", after |-> 0,
     called |-> <<"generate_codebook", "export_csv", "export_excel_full",
                  "export_excel_smartpls", "export_codebook_html",
                  "export_metadata_json">>
                    \o (IF libs.reportlab THEN <<"export_codebook_pdf">> ELSE <<>>)
                    \o <<"export_spss", "export_stata", "export_rds">>,
     payloads |-> {"csv", "excel_full", "excel_smartpls", "codebook_csv",
                   "codebook_html", "metadata_json"}
                    \cup {f \in OptionalFormats : libs[LibraryOf(f)] /\ works[f]},
     caught |-> {f \in OptionalFormats :
                    /\ f = "pdf" => libs.reportlab
                    /\ ~(libs[LibraryOf(f)] /\ works[f])}]

\* mutant of ExportCenterScript: the guard of lines 49-54 never stops the run
ExportCenterScriptNoStop(ss, works) ==
    [ExportPrepared(ss.libs, works) EXCEPT !.after = Len(ss.attempts)]

\* ExportCenter.py:45-122, one run of the page script; after is the number of
\* generation attempts the session had seen when the script ran
ExportCenterScript(ss, works) ==
    IF ss.last_full_df = None \/ ss.last_items_df = None \/ ss.last_model_cfg = None
    THEN [stopped |-> TRUE, message |-> "No dataset found", after |-> Len(ss.attempts),
          called |-> <<>>, payloads |-> {}, caught |-> {}]
    ELSE [ExportPrepared(ss.libs, works) EXCEPT !.after = Len(ss.attempts)]

\* the construct table after Home.py:132-169 (names stripped, rows without a
\* name or without items dropped), loading bounds in hundredths
TableRows ==
    {[name |-> "A", n_items |-> 1, distribution |-> d, target_loading_min |-> b[1],
      target_loading_mean |-> b[2], target_loading_max |-> b[3]] :
        d \in {"normal", "gamma"}, b \in {<<60, 75, 90>>, <<90, 75, 60>>}}

HomeWidgets ==
    [likert_min : {1, 3}, likert_max : {3, 5}, add_demographics : {TRUE},
     construct_df : {<<>>} \cup {<<r>> : r \in TableRows}
                           \cup {<<r, [r EXCEPT !.name = "B"]>> : r \in TableRows}]

\* streamlit_app.py:22-28: the three keys start as None
InitSession ==
    /\ entry = "streamlit session"
    /\ InitOther
    /\ endo = NoEndo
    /\ generators = <<>>
    /\ biasRun = NoBiasRun
    /\ diag = NoDiag
    /\ \E libs \in Libraries :
          session = [stage |-> "running", libs |-> libs, last_full_df |-> None,
                     last_items_df |-> None, last_model_cfg |-> None,
                     attempts |-> <<>>, export |-> NoExportRun]

SessionUnchanged ==
    UNCHANGED <<entry, cfg, pc, repr, nodes, parentKeys, parentsOf, order, draws, latent,
                err, result, validated, callNo, firstCall, item, endo, generators,
                biasRun, diag>>

\* a run of app/Home.py with the button pressed
HomeGenerate ==
    /\ session.stage = "running"
    /\ Len(session.attempts) < MaxAttempts
    /\ \E w \in HomeWidgets : session' = HomeGenerateClicked(session, w)
    /\ SessionUnchanged

\* a run of app/Home.py without the button pressed: Home.py:308-311
HomeIdle ==
    /\ session.stage = "running"
    /\ session' = session
    /\ SessionUnchanged

\* a run of app/ExportCenter.py
ExportCenterRun ==
    /\ session.stage = "running"
    /\ \E works \in [OptionalFormats -> BOOLEAN] :
          session' = [session EXCEPT !.export = ExportCenterScript(session, works)]
    /\ SessionUnchanged

NextSession == HomeGenerate \/ HomeIdle \/ ExportCenterRun

SpecSession == InitSession /\ [][NextSession]_vars

RECURSIVE LastStored(_, _)
LastStored(attempts, i) ==
    IF i = 0 THEN 0
    ELSE IF attempts[i].outcome = "stored" THEN i
    ELSE LastStored(attempts, i - 1)

\* C21: the three cached artifacts are all None as long as no generation
\* attempt of the session has succeeded, and otherwise all three are the ones
\* stored by the most recent successful attempt; so an attempt that is
\* rejected or raises leaves all three as they were.
C21_CachedArtifactsTogether ==
    session.stage = "running" =>
        LET k == LastStored(session.attempts, Len(session.attempts))
        IN  IF k = 0
            THEN /\ session.last_full_df = None
                 /\ session.last_items_df = None
                 /\ session.last_model_cfg = None
            ELSE /\ session.last_full_df = Artifact("full_df", k)
                 /\ session.last_items_df = Artifact("items_df", k)
                 /\ session.last_model_cfg = Artifact("model_cfg", k)

\* a session in which one attempt was rejected and another one raised inside
\* generate_dataset, with the three keys still None
C21_Witness ==
    /\ session.stage = "running"
    /\ \E i, j \in 1..Len(session.attempts) :
          /\ session.attempts[i].outcome = "rejected"
          /\ session.attempts[j] = [outcome |-> "raised", err |-> "AttributeError"]
    /\ session.last_full_df = None
    /\ session.last_items_df = None
    /\ session.last_model_cfg = None

ExportRan == session.stage = "running" /\ session.export.message # "not run"

AllPresent ==
    /\ session.last_full_df # None
    /\ session.last_items_df # None
    /\ session.last_model_cfg # None

\* C22: when the Export Center runs after a generation with acceptable
\* inputs and an optional library is absent, the CSV, Excel, codebook and
\* metadata payloads are produced in that run, a format is missing from the
\* payloads only if its library is absent or its call failed, and the calls of
\* export_spss, export_stata and export_rds that raised were caught.
C22_OnlyThatFormatUnavailable ==
    (/\ ExportRan
     /\ \E i \in 1..session.export.after :
           \/ session.attempts[i].outcome = "stored"
           \/ session.attempts[i] = [outcome |-> "raised", err |-> "AttributeError"]
     /\ \E f \in OptionalFormats : ~session.libs[LibraryOf(f)])
    => /\ ~session.export.stopped
       /\ {"csv", "excel_full", "excel_smartpls", "codebook_csv", "codebook_html",
           "metadata_json"} \subseteq session.export.payloads
       /\ \A f \in OptionalFormats :
             ~session.libs[LibraryOf(f)] =>
                /\ f \notin session.export.payloads
                /\ f # "pdf" => f \in session.export.caught

\* C30: the Export Center calls an export function or produces a payload only
\* when the three artifacts are present, which takes a successful generation
\* earlier in the session; a run that finds one of them absent reports that no
\* dataset was found and stops with nothing called and nothing produced.
C30_ExportOnlyAfterGeneration ==
    ExportRan =>
        /\ (session.export.called # <<>> \/ session.export.payloads # {}) =>
              /\ AllPresent
              /\ \E i \in 1..session.export.after : session.attempts[i].outcome = "stored"
        /\ (\A i \in 1..session.export.after : session.attempts[i].outcome # "stored") =>
              /\ session.export.stopped
              /\ session.export.message = "No dataset found"
        /\ session.export.stopped =>
              /\ session.export.called = <<>>
              /\ session.export.payloads = {}

\* the Export Center has run after an attempt that raised, and stopped with
\* the message
C30_Witness ==
    /\ ExportRan
    /\ session.export.after > 0
    /\ session.attempts[session.export.after].outcome = "raised"
    /\ session.export.stopped
    /\ session.export.message = "No dataset found"
    /\ session.export.called = <<>>

(***************************************************************************)
(* core/structural.py and core/config.py: path lists with repeated pairs,  *)
(* the iteration order of the node set, and the two cycle checks           *)
(***************************************************************************)
RepeatsPair(paths) ==
    \E i, j \in 1..Len(paths) : i # j /\ paths[i] = paths[j]

\* C23: for every path list over declared constructs, repeated pairs and
\* several paths into or out of one construct included,
\* simulate_structural_latents ends with the cycle error if and only if the
\* paths contain a directed cycle.
C23_CycleErrorIffCycle ==
    (DirectCall /\ pc = "done" /\ cfg.paths # <<>> /\ ~SomePathDangles)
        => ((err = "ValueError:cycle") <=> HasCycle(cfg.paths))

\* C24: on an acyclic path list over declared constructs the sort raises
\* nothing and emits every node exactly once with every path's source before
\* its target, and the second loop never meets a parent without a column.
C24_SortedParentsFirst ==
    (DirectCall /\ pc = "done" /\ cfg.paths # <<>> /\ ~SomePathDangles
        /\ ~HasCycle(cfg.paths))
    => /\ err = "none"
       /\ Len(order) = Cardinality(nodes)
       /\ Range(order) = nodes
       /\ \A p \in Range(cfg.paths) :
             \E i, j \in 1..Len(order) :
                i < j /\ order[i] = p.source /\ order[j] = p.target

\* simulate_structural_latents, lines 181-294, for one iteration order of the
\* nodes set: the frame it returns
SimulateWithOrder(c, iter) ==
    LET keys == GraphKeys(c.paths, Len(c.paths))
        par  == GraphParents(c.paths)
        t    == TopologicalSort(iter, keys, par)
        st1  == FirstPass(1, t.order, keys, par,
                          [draws |-> <<>>, ls |-> EmptyLatent, err |-> "none"])
        st2  == SecondPass(1, t.order, c.paths, keys, par, st1)
        st3  == FallbackPass(1, ConstructNames(c.constructs), st2)
    IN  LatentFrame(OrderedColumns(c.constructs, st3.ls), st3.ls)

\* C25: the latent matrix simulate_structural_latents returns for a
\* configuration is the one it returns under every iteration order of the node
\* set: which draw of the shared generator a construct receives depends on the
\* configuration alone.
C25_SameForEveryIterationOrder ==
    (SimReturned /\ cfg.paths # <<>>) =>
        \A iter \in Iterations(nodes) : SimulateWithOrder(cfg, iter) = result

\* C29: on a path list without repeated pairs _check_cycles raises exactly
\* when _topological_sort raises, whatever the iteration order of the node
\* set; so simulate_structural_latents ends with the cycle error on such a
\* list exactly when validation finds it circular.
C29_CycleChecksAgree ==
    (pc = "done" /\ cfg.paths # <<>> /\ ~RepeatsPair(cfg.paths)) =>
        /\ \A iter \in Iterations(GraphNodes(cfg.paths)) :
              (TopologicalSort(iter, GraphKeys(cfg.paths, Len(cfg.paths)),
                               GraphParents(cfg.paths)).err = "ValueError:cycle")
                  <=> CheckCyclesRaises(cfg.paths)
        /\ (DirectCall /\ ~SomePathDangles) =>
              ((err = "ValueError:cycle") <=> CheckCyclesRaises(cfg.paths))

\* an accepted list of three paths with two paths into one construct and two
\* paths out of one construct: both checks pass and the engine has returned
C29_Witness ==
    /\ SimReturned /\ ~RepeatsPair(cfg.paths)
    /\ Len(cfg.paths) = 3
    /\ \E i, j \in 1..3 : i # j /\ cfg.paths[i].target = cfg.paths[j].target
    /\ \E i, j \in 1..3 : i # j /\ cfg.paths[i].source = cfg.paths[j].source
    /\ ~CheckCyclesRaises(cfg.paths)

(***************************************************************************)
(* core/diagnostics.py: the monotrait mean of compute_htmt                 *)
(***************************************************************************)
\* the defined entries (i, j), i # j, of the absolute correlation matrix of
\* the columns cols, over the rows compute_htmt correlates them on
OffDiagonalEntries(t, cols, rows0) ==
    LET rows == SafeNumericDf(t, cols, rows0)
        r2(i, j) == Pearson(t.v[cols[i]], t.v[cols[j]],
                            {r \in rows : Present(t, cols[i], r) /\ Present(t, cols[j], r)})
    IN  {[pair |-> <<cols[ij[1]], cols[ij[2]]>>, r |-> r2(ij[1], ij[2])] :
            ij \in {ij \in (1..Len(cols)) \X (1..Len(cols)) :
                      ij[1] # ij[2] /\ r2(ij[1], ij[2]).kind = "num"}}

\* C26: whenever compute_htmt gets as far as the monotrait means, each of
\* them averages exactly the defined off-diagonal entries of the construct's
\* absolute item correlation matrix, whatever their values: the result is NaN
\* only when one of the two lists is empty or has mean 0.
C26_MonotraitOffDiagonal ==
    (DiagReturned /\ diag.results.raised = "none") =>
        \A a, b \in Constructs(diag.construct_map) :
            LET ia    == Indicators(diag.construct_map, a)
                ib    == Indicators(diag.construct_map, b)
                rows0 == SafeNumericDf(diag.items, diag.items.cols, 1..diag.items.n)
                ma    == OffDiagonalEntries(diag.items, ia, rows0)
                mb    == OffDiagonalEntries(diag.items, ib, rows0)
            IN  (a # b /\ Het(diag.items, ia, ib, rows0) # {}) =>
                    IF (ma = {}) \/ (mb = {}) \/ (\A e \in ma : e.r.num = 0)
                          \/ (\A e \in mb : e.r.num = 0)
                    THEN diag.results.htmt[a][b].kind = "nan"
                    ELSE /\ diag.results.htmt[a][b].kind = "ratio"
                         /\ diag.results.htmt[a][b].mono_a = ma
                         /\ diag.results.htmt[a][b].mono_b = mb

(***************************************************************************)
(* core/generator.py: the binning of one item, lines 87-98, with the raw   *)
(* scores kept in the state                                                *)
(***************************************************************************)
MaxBinRespondents == 3

\* the variables of the other parts of the program, for a call that uses item
InitItemOnly ==
    /\ pc = "items"
    /\ cfg = NoConfig
    /\ repr = "list"
    /\ nodes = {}
    /\ parentKeys = <<>>
    /\ parentsOf = [n \in Names |-> <<>>]
    /\ order = <<>>
    /\ draws = <<>>
    /\ latent = EmptyLatent
    /\ err = "none"
    /\ result = NoResult
    /\ validated = "not run"
    /\ callNo = 1
    /\ firstCall = NoCall
    /\ endo = NoEndo
    /\ generators = <<>>
    /\ biasRun = NoBiasRun
    /\ diag = NoDiag
    /\ session = NoSession

\* one pass of the item loop has reached line 87 with the scores raw
InitBinning ==
    /\ entry = "_generate_items_for_construct:binning"
    /\ InitItemOnly
    /\ \E n \in 1..MaxBinRespondents, lk \in LikertRanges :
          \E raw \in [1..n -> RawScores] :
             item = [stage |-> "raw", raw |-> raw, lik_min |-> lk[1], lik_max |-> lk[2],
                     how |-> "none", column |-> <<>>]

\* lines 87-98 for the scores of one item
BinItem ==
    /\ entry = "_generate_items_for_construct:binning"
    /\ item.stage = "raw"
    /\ \E lib \in QCutOutcomes :
          item' = [item EXCEPT
                      !.stage = "binned",
                      !.how = BranchTaken(item.raw, item.lik_max - item.lik_min + 1,
                                          lib.raised),
                      !.column = LikertColumn(item.raw, item.lik_min, item.lik_max,
                                              lib.raised, lib.nanAs)]
    /\ UNCHANGED <<entry, cfg, pc, repr, nodes, parentKeys, parentsOf, order, draws,
                   latent, err, result, validated, callNo, firstCall,
                   endo, generators, biasRun, diag, session>>

NextBinning == BinItem

SpecBinning == InitBinning /\ [][NextBinning]_vars

\* C27: when the quantile edges of an item's scores give fewer than
\* likert_max - likert_min + 1 bins, the column is the one the rank-based
\* branch computes: fractional ranks scaled into [0, n_cat), floored, clipped
\* and shifted by likert_min.
C27_RankBranchWhenBinsCollapse ==
    (/\ entry = "_generate_items_for_construct:binning"
     /\ item.stage = "binned"
     /\ Cardinality(UniqueEdges(item.raw, item.lik_max - item.lik_min + 1))
           < item.lik_max - item.lik_min + 2)
    => /\ item.how = "rank"
       /\ item.column =
             [r \in DOMAIN item.raw |->
                 ClipLikert(RankCats(item.raw, item.lik_max - item.lik_min + 1)[r]
                                + item.lik_min,
                            item.lik_min, item.lik_max)]

(***************************************************************************)
(* core/generator.py: _sample_loadings and the loading used for an item    *)
(*                                                                         *)
(* Loading bounds and uniform draws are in hundredths; the shifted         *)
(* loadings and lam are in two-hundredths, so that the mean of one or two  *)
(* draws stays in the integers.                                            *)
(***************************************************************************)
\* target_loading_min, _mean, _max as ConstructConfig accepts them
\* (config.py:150: 0 < min <= mean <= max < 1)
LoadingTargets ==
    {[min |-> 60, mean |-> 75, max |-> 90], [min |-> 70, mean |-> 80, max |-> 95],
     [min |-> 90, mean |-> 97, max |-> 98], [min |-> 10, mean |-> 50, max |-> 99],
     [min |-> 80, mean |-> 96, max |-> 99], [min |-> 5, mean |-> 8, max |-> 60]}

LoadingItemCounts == {1, 2}

\* lines 39-40
LoadingLow(c) == IF c.min < c.max THEN (IF c.min > 10 THEN c.min ELSE 10)
                 ELSE (IF c.max > 10 THEN c.max ELSE 10)
LoadingHigh(c) == IF c.min > c.max THEN (IF c.min < 99 THEN c.min ELSE 99)
                  ELSE (IF c.max < 99 THEN c.max ELSE 99)

\* line 42: values rng.uniform(low, high) can give
UniformDraws(c) == {LoadingLow(c), (LoadingLow(c) + LoadingHigh(c)) \div 2, LoadingHigh(c)}

\* lines 44-46, for the draws u: shift to the target mean, clip into [0.10, 0.99]
SampleLoadings(c, u) ==
    LET k     == Len(u)
        shift == 2 * c.mean - (2 * SetSum(1..k, u)) \div k
    IN  [i \in 1..k |-> ClipTo(2 * u[i] + shift, 20, 198)]

\* line 80: lam = float(np.clip(lam, 0.10, 0.95))
ClipLam(loading) == ClipTo(loading, 20, 190)

\* line 81: max(1e-6, 1.0 - lam ** 2), lam in two-hundredths
ErrorVar(lam) ==
    IF 40000 - lam * lam <= 0 THEN Num(1, 1000000) ELSE Num(40000 - lam * lam, 40000)

InitLoadings ==
    /\ entry = "_generate_items_for_construct:loadings"
    /\ InitItemOnly
    /\ \E c \in LoadingTargets, k \in LoadingItemCounts :
          item = [stage |-> "called", construct |-> c, n_items |-> k, loadings |-> <<>>,
                  lam |-> <<>>, error_var |-> <<>>]

ItemOnlyUnchanged ==
    UNCHANGED <<entry, cfg, pc, repr, nodes, parentKeys, parentsOf, order, draws,
                latent, err, result, validated, callNo, firstCall,
                endo, generators, biasRun, diag, session>>

\* line 70: loadings = _sample_loadings(construct, rng)
LoadingsSample ==
    /\ entry = "_generate_items_for_construct:loadings"
    /\ item.stage = "called"
    /\ \E u \in [1..item.n_items -> UniformDraws(item.construct)] :
          item' = [item EXCEPT !.stage = "loop",
                               !.loadings = SampleLoadings(item.construct, u)]
    /\ ItemOnlyUnchanged

\* lines 79-82 of one pass of the item loop
LoadingItem ==
    /\ entry = "_generate_items_for_construct:loadings"
    /\ item.stage = "loop"
    /\ Len(item.lam) < item.n_items
    /\ LET lam == ClipLam(item.loadings[Len(item.lam) + 1])
       IN  item' = [item EXCEPT !.lam = Append(@, lam),
                                !.error_var = Append(@, ErrorVar(lam))]
    /\ ItemOnlyUnchanged

NextLoadings == LoadingsSample \/ LoadingItem

SpecLoadings == InitLoadings /\ [][NextLoadings]_vars

\* C28: the lam of every item is the loading _sample_loadings returned for
\* it, a value of [0.10, 0.99], used unchanged, and its noise variance is
\* max(1e-6, 1 - loading^2).
C28_LoadingUsedUnchanged ==
    (entry = "_generate_items_for_construct:loadings" /\ item.stage = "loop") =>
        \A i \in 1..Len(item.lam) :
            /\ 20 <= item.loadings[i] /\ item.loadings[i] <= 198
            /\ item.lam[i] = item.loadings[i]
            /\ item.error_var[i] = ErrorVar(item.loadings[i])

=============================================================================
